---- MODULE Spec2Model ----
(***************************************************************************)
(* Translation bot (main.py and its Oracle-Cloud variant main_oracle.py):  *)
(* the provider adapters with their caches, the recipient resolver, the    *)
(* message handler with its de-duplication set, and the hourly cache       *)
(* cleanup.                                                                *)
(*                                                                         *)
(* Scheduling.  Both programs run on one asyncio event loop: a handler     *)
(* runs without interruption from one suspension point (an awaited network *)
(* call, a sleep) to the next.  The variable `running` names the handler   *)
(* that holds the loop (0: the loop is idle); a step that starts from a    *)
(* gateway event, a provider response or a timer needs running = 0, and a  *)
(* handler gives the loop back exactly where the code awaits something     *)
(* that suspends.  The straight-line code between two suspension points is *)
(* split into small steps of the running handler only to make each call    *)
(* visible; no other handler can step between them.                        *)
(***************************************************************************)
EXTENDS Integers, Sequences, FiniteSets, TLC

VARIABLES
    env,               \* what is fixed for a run: variant, configured providers, guild members
    guild_settings,    \* bot.guild_settings for the one guild (main.py)
    user_preferences,  \* bot.user_preferences: member -> stored language list (main.py)
    processing,        \* the de-duplication set of message ids
    cache,             \* adapter -> its cache, an insertion-ordered dict
    semaphore,         \* adapter -> free slots of its asyncio.Semaphore (main_oracle.py)
    translation_stats, \* language -> counter
    reaction_messages, \* reply id -> retained reply context (main.py)
    tasks,             \* handler tasks: position and locals of each
    running,           \* the task holding the event loop, 0 when idle
    delivered,         \* number of gateway events delivered so far
    replies,           \* replies posted so far, in order
    outbound,          \* adapter -> number of provider calls issued so far
    window,            \* message id -> replies posted since the id entered `processing`
    reactions,         \* reaction-added events: how many were delivered, and the last one (main.py)
    dms                \* private messages sent so far, in order (main.py)

vars == << env, guild_settings, user_preferences, processing, cache, semaphore,
           translation_stats, reaction_messages, tasks, running, delivered,
           replies, outbound, window, reactions, dms >>

----------------------------------------------------------------------------
(* Bounds of the model *)

\* gateway message-created events delivered in one run
MaxEvents == 2
\* handler tasks that can be alive at the same time
NumTasks == 2
\* main.py cleanup_cache: threshold (1000 in the source) and entries kept (500),
\* scaled down so that a run of MaxEvents messages can cross the threshold
MainCacheLimit == 2
MainCacheKeep == 1
\* main_oracle.py CACHE_SIZE (5000 in the source), scaled down likewise
CACHE_SIZE == 2
\* reaction-added events delivered in one run
MaxReactions == 2

(* Program constants *)

\* main_oracle.py CONCURRENT_TRANSLATIONS (10 in the source), scaled down so that
\* NumTasks handlers can use every slot of an adapter
CONCURRENT_TRANSLATIONS == 1
\* main_oracle.py: text[:50] in the cache keys
KeyPrefixLen == 50

----------------------------------------------------------------------------
(* Values *)

\* Python's None
None == "<None>"

\* str(x) as an f-string formats it
Str(x) == IF x = None THEN "None" ELSE x

\* Python truthiness of an Optional[str]
Truthy(x) == x # None /\ x # ""

\* text[:n]
Prefix(text, n) == IF Len(text) <= n THEN text ELSE SubSeq(text, 1, n)

Tasks == 1..NumTasks

\* The language registry, three of its entries (both files hold them).
LANGUAGES ==
    [ en |-> [code |-> "en", name |-> "English", flag |-> "flag-GB",
              deepl_code |-> "EN", azure_code |-> "en"],
      es |-> [code |-> "es", name |-> "Spanish", flag |-> "flag-ES",
              deepl_code |-> "ES", azure_code |-> "es"],
      zh |-> [code |-> "zh", name |-> "Chinese", flag |-> "flag-CN",
              deepl_code |-> "ZH", azure_code |-> "zh-Hans"] ]

Codes == DOMAIN LANGUAGES

\* Codes the detection endpoint can report: two registered ones (one whose Azure
\* code differs from the registry code) and one, Catalan, that no entry maps.
AzureDetectable == {"en", "zh-Hans", "ca"}

\* Role names of the guild, with str.lower() and str.strip() on them.
RoleNames == {"Spanish", "es", " ES ", "Chinese", "English", "Moderator"}

Lower(s) ==
    CASE s = "Spanish"   -> "spanish"
      [] s = " ES "      -> " es "
      [] s = "Chinese"   -> "chinese"
      [] s = "English"   -> "english"
      [] s = "Moderator" -> "moderator"
      [] OTHER           -> s

Strip(s) ==
    CASE s = " es " -> "es"
      [] s = " ES " -> "ES"
      [] OTHER      -> s

\* Message contents: a short one, and two long ones that agree on their first
\* 50 characters and differ after them.
ShortText == "hola"
LongTextA == "0123456789012345678901234567890123456789012345678-A-tail"
LongTextB == "0123456789012345678901234567890123456789012345678-A-other"
Blank == "  "

Author == "alice"
Others == {"bob", "carol"}
Members == {Author} \cup Others

\* The messages the gateway can deliver.
Messages ==
    [ m1 |-> [id |-> 1, content |-> ShortText, author |-> Author, guild |-> TRUE],
      m2 |-> [id |-> 2, content |-> LongTextA, author |-> Author, guild |-> TRUE],
      m3 |-> [id |-> 3, content |-> LongTextB, author |-> Author, guild |-> TRUE],
      m4 |-> [id |-> 4, content |-> Blank, author |-> Author, guild |-> TRUE],
      m5 |-> [id |-> 5, content |-> ShortText, author |-> Author, guild |-> FALSE],
      m6 |-> [id |-> 6, content |-> "es_en", author |-> Author, guild |-> TRUE],
      m7 |-> [id |-> 7, content |-> "detect", author |-> Author, guild |-> TRUE] ]

MsgIds == {Messages[m].id : m \in DOMAIN Messages}

MsgOf(id) == CHOOSE m \in DOMAIN Messages : Messages[m].id = id

Content(id) == Messages[MsgOf(id)].content

----------------------------------------------------------------------------
(* Insertion-ordered dict, as a sequence of [k, v] without repeated keys; each
   entry also records the call whose result it holds: << text, target, source >>
   for a translation, << text >> for a detection *)

CacheKeys(c) == {c[i].k : i \in 1..Len(c)}

CacheHas(c, key) == key \in CacheKeys(c)

CacheGet(c, key) == c[CHOOSE i \in 1..Len(c) : c[i].k = key].v

\* the call whose result is stored under the key
CacheOf(c, key) == c[CHOOSE i \in 1..Len(c) : c[i].k = key].of

\* c[key] = val: a present key keeps its place, a new one goes last
CachePut(c, key, val, of) ==
    IF CacheHas(c, key)
    THEN [i \in 1..Len(c) |->
            IF c[i].k = key THEN [k |-> key, v |-> val, of |-> of] ELSE c[i]]
    ELSE Append(c, [k |-> key, v |-> val, of |-> of])

\* dict(list(c.items())[-n:]) for n > 0
CacheLast(c, n) == IF Len(c) <= n THEN c ELSE SubSeq(c, Len(c) - n + 1, Len(c))

Get(d, key, default) == IF key \in DOMAIN d THEN d[key] ELSE default

EmptyDict == [k \in {} |-> TRUE]

----------------------------------------------------------------------------
(* Recipient resolver *)

\* message.channel.members: the guild members who can read the channel
ChannelMembers == {member \in Members : env.members[member].read}

\* main.py get_user_languages: the stored preference list united with the
\* language roles (role name, lowered and stripped, equal to a registry name or code)
get_user_languages(member) ==
    {user_preferences[member][i] : i \in 1..Len(user_preferences[member])}
    \cup {code \in Codes :
            \E role \in env.members[member].roles :
                LET role_name == Strip(Lower(role))
                IN role_name = Lower(LANGUAGES[code].name) \/ role_name = code}

\* main.py get_target_users, the `continue` conditions of its loop
Skipped(member, author) ==
    \/ env.members[member].bot
    \/ member = author
    \/ ~env.members[member].read
    \/ /\ Get(guild_settings.d, "online_only", TRUE)
       /\ env.members[member].offline

\* Faulty variant: a participant is served as soon as it reads a language other
\* than the source
NeedsTranslationLoose(user_langs, source_lang) == user_langs \ {source_lang} # {}

\* main.py get_target_users: `if user_langs and source_lang not in user_langs`
NeedsTranslation(user_langs, source_lang) ==
    user_langs # {} /\ source_lang \notin user_langs

\* class TranslationMode(Enum), by value
TranslationMode == {"role", "reaction", "auto", "channel", "dm"}

ROLE_BASED == "role"

\* Faulty variant: only the role-based mode serves the participants
get_target_usersByMode(author, source_lang) ==
    LET mode == Get(guild_settings.d, "mode", ROLE_BASED)
    IN IF mode = ROLE_BASED
       THEN {<<member, get_user_languages(member)>> : member \in
               {mb \in ChannelMembers :
                   /\ ~Skipped(mb, author)
                   /\ NeedsTranslation(get_user_languages(mb), source_lang)}}
       ELSE {}

\* main.py get_target_users: the participant -> languages mapping, as a set of
\* pairs. `mode` is read from the settings and not used.
get_target_users(author, source_lang) ==
    LET mode == Get(guild_settings.d, "mode", ROLE_BASED)
    IN {<<member, get_user_languages(member)>> : member \in
          {mb \in ChannelMembers :
              /\ ~Skipped(mb, author)
              /\ NeedsTranslation(get_user_languages(mb), source_lang)}}

\* main.py on_message: target_langs, the union of the mapping's values
CollectTargetLangs(target_users) == UNION {tu[2] : tu \in target_users}

\* main_oracle.py auto_translate: the role loop (no strip, no stored preferences,
\* no permission or presence test; a code is dropped only when it is the source)
OracleTargetLangs(author, source_lang) ==
    {code \in Codes :
        \E member \in ChannelMembers :
            /\ ~env.members[member].bot
            /\ member # author
            /\ \E role \in env.members[member].roles :
                   /\ \/ Lower(role) = Lower(LANGUAGES[code].name)
                      \/ Lower(role) = code
                   /\ code # source_lang}

\* detect_language of both files: the provider's code mapped back to a registry
\* code by its azure_code, or passed through unchanged
MapDetected(detected) ==
    IF \E code \in Codes : LANGUAGES[code].azure_code = detected
    THEN CHOOSE code \in Codes : LANGUAGES[code].azure_code = detected
    ELSE detected

----------------------------------------------------------------------------
(* Provider adapters of main.py *)

\* main.py DeepLTranslator.translate / AzureTranslator.translate: the cache key
MainCacheKey(p, text, target_lang, source_lang) ==
    p \o "_" \o text \o "_" \o target_lang \o "_" \o Str(source_lang)

\* Faulty variant: the cache is not consulted
MainAdapterPreNoCache(p, text, target_lang, source_lang) ==
    IF target_lang \notin Codes
    THEN [kind |-> "none", val |-> None]
    ELSE IF source_lang # None /\ source_lang # "" /\ source_lang \notin Codes
    THEN [kind |-> "raise", val |-> None]
    ELSE [kind |-> "send", val |-> None]

\* main.py, both translate methods up to the request: a cache hit returns the
\* stored value, an unregistered target returns None, LANGUAGES[source_lang] of
\* an unregistered source raises KeyError outside the try, otherwise the request
\* is sent
MainAdapterPre(p, text, target_lang, source_lang) ==
    LET key == MainCacheKey(p, text, target_lang, source_lang)
    IN IF CacheHas(cache[p], key)
       THEN [kind |-> "hit", val |-> CacheGet(cache[p], key)]
       ELSE IF target_lang \notin Codes
       THEN [kind |-> "none", val |-> None]
       ELSE IF source_lang # None /\ source_lang # "" /\ source_lang \notin Codes
       THEN [kind |-> "raise", val |-> None]
       ELSE [kind |-> "send", val |-> None]

\* What a provider call can come back with: status 200 and a text, or anything
\* else (another status, a transport error, a timeout of the session)
Responses ==
    {[ok |-> TRUE, text |-> a] : a \in env.answers} \cup {[ok |-> FALSE, text |-> None]}

\* Faulty variant: whatever came back is stored
MainAdapterStoreAnyStatus(c, key, resp, of) == CachePut(c, key, resp.text, of)

\* main.py: status 200 stores the text under the key and returns it
MainAdapterStore(c, key, resp, of) ==
    IF resp.ok THEN CachePut(c, key, resp.text, of) ELSE c

----------------------------------------------------------------------------
(* Handler tasks *)

\* What a handler has seen of the adapter calls of its current translate_message:
\* per adapter, how the call ended, its arguments, what it returned and whether
\* the cache answered
NoCall == [status |-> "", args |-> <<>>, ret |-> None, hit |-> FALSE]

NoTm == [p \in {"deepl", "azure"} |-> NoCall]

IdleTask ==
    [ pc |-> "idle", kind |-> "msg", reactor |-> None,
      msg |-> 0, gs |-> "none", source |-> None,
      target_users |-> {}, target_langs |-> {}, pending |-> {}, lang |-> None,
      translations |-> {}, ret |-> None, reply |-> 0,
      at |-> 0, prov |-> None, tm |-> NoTm, asked |-> {}, failed |-> {}, calls |-> 0,
      resolved |-> FALSE, raised |-> FALSE, outcome |-> "" ]

Set(t, rec) == tasks' = [tasks EXCEPT ![t] = rec]

\* the handler's local guild_settings: the guild's own dict when it has one,
\* else a fresh empty dict
LocalSettings(t) == IF tasks[t].gs = "live" THEN guild_settings.d ELSE EmptyDict

TranslatedLangs(t) == {tr[1] : tr \in tasks[t].translations}

\* Faulty variant: the handler goes on without a detected language
DetectedAlways(source_lang) == TRUE

\* `if not source_lang: return` of both handlers
Detected(source_lang) == Truthy(source_lang)

\* Faulty variant: detection is asked of whichever provider is configured
HasDetectorAnyProvider(translators) == translators # {}

\* `if azure := self.bot.translators.get("azure")` of detect_language in main.py,
\* `if azure := self.translators.get("azure")` of auto_translate in main_oracle.py
HasDetector(translators) == "azure" \in translators

\* Faulty variant: the de-duplication set is never consulted
AlreadyProcessingNever(id) == FALSE

\* `message.id in self.processing`
AlreadyProcessing(id) == id \in processing

\* the free task slot a new handler takes
FreeSlot(t) == tasks[t].pc = "idle" /\ \A u \in Tasks : u < t => tasks[u].pc # "idle"

\* `not message.content.strip()` of main.py
BlankAfterStrip(text) == text = "" \/ text = Blank

\* What the detection endpoint can come back with
DetectResponses ==
    {[ok |-> TRUE, code |-> c] : c \in env.detects} \cup {[ok |-> FALSE, code |-> None]}

----------------------------------------------------------------------------
(* main.py TranslationEvents.on_message *)

\* The guards before the de-duplication set is consulted
MainIgnores(m) ==
    \/ env.members[Messages[m].author].bot
    \/ BlankAfterStrip(Messages[m].content)
    \/ ~Messages[m].guild
    \/ ~Get(guild_settings.d, "auto_translate", TRUE)

\* A message-created event arrives: the guards, the de-duplication set, and
\* detect_language up to its request.
Main_OnMessage(t, m) ==
    /\ env.variant = "main"
    /\ UNCHANGED << reactions, dms >>
    /\ running = 0
    /\ delivered < env.events
    /\ FreeSlot(t)
    /\ delivered' = delivered + 1
    /\ UNCHANGED << env, guild_settings, user_preferences, cache, semaphore,
                    translation_stats, reaction_messages, running, replies >>
    /\ IF MainIgnores(m) \/ AlreadyProcessing(Messages[m].id)
       THEN UNCHANGED << processing, tasks, outbound, window >>
       ELSE /\ processing' = processing \cup {Messages[m].id}
            /\ window' = [window EXCEPT ![Messages[m].id] = 0]
            /\ IF HasDetector(env.translators)
               THEN /\ outbound' = [outbound EXCEPT !["azure"] = @ + 1]
                    /\ Set(t, [IdleTask EXCEPT
                                 !.pc = "await_detect",
                                 !.at = delivered + 1,
                                 !.msg = Messages[m].id,
                                 !.gs = IF guild_settings.present THEN "live" ELSE "own"])
               ELSE /\ UNCHANGED outbound
                    /\ Set(t, [IdleTask EXCEPT
                                 !.pc = "sleep",
                                 !.at = delivered + 1,
                                 !.msg = Messages[m].id,
                                 !.gs = IF guild_settings.present THEN "live" ELSE "own",
                                 !.outcome = "nodetect"])

\* AzureTranslator.detect_language returns; `if not source_lang: return`, else
\* get_target_users starts and awaits guild.chunk()
Main_DetectReturn(t, resp) ==
    /\ env.variant = "main"
    /\ UNCHANGED << reactions, dms >>
    /\ running = 0
    /\ tasks[t].pc = "await_detect"
    /\ LET source == IF resp.ok THEN MapDetected(resp.code) ELSE None
       IN IF Detected(source)
          THEN Set(t, [tasks[t] EXCEPT !.pc = "await_chunk", !.source = source])
          ELSE Set(t, [tasks[t] EXCEPT !.pc = "sleep", !.outcome = "nodetect"])
    /\ UNCHANGED << env, guild_settings, user_preferences, processing, cache, semaphore,
                    translation_stats, reaction_messages, running, delivered, replies,
                    outbound, window >>

\* guild.chunk() returns (or raises): the resolver runs, `if not target_users: return`,
\* else the target languages are collected and the translation loop starts
Main_ChunkReturn(t, ok) ==
    /\ env.variant = "main"
    /\ UNCHANGED << reactions, dms >>
    /\ running = 0
    /\ tasks[t].pc = "await_chunk"
    /\ LET target_users == get_target_users(Messages[MsgOf(tasks[t].msg)].author,
                                            tasks[t].source)
       IN IF ~ok
          THEN /\ Set(t, [tasks[t] EXCEPT !.pc = "sleep", !.raised = TRUE,
                                          !.outcome = "error"])
               /\ UNCHANGED running
          ELSE IF target_users = {}
          THEN /\ Set(t, [tasks[t] EXCEPT !.pc = "sleep", !.resolved = TRUE,
                                          !.outcome = "notargets"])
               /\ UNCHANGED running
          ELSE /\ Set(t, [tasks[t] EXCEPT
                            !.pc = "loop",
                            !.resolved = TRUE,
                            !.target_users = target_users,
                            !.target_langs = CollectTargetLangs(target_users),
                            !.pending = CollectTargetLangs(target_users)])
               /\ running' = t
    /\ UNCHANGED << env, guild_settings, user_preferences, processing, cache, semaphore,
                    translation_stats, reaction_messages, delivered, replies,
                    outbound, window >>

\* Faulty variant: a language stays in the loop until it has been requested twice
Main_LoopAskingAgain(t) ==
    /\ env.variant = "main"
    /\ UNCHANGED << reactions, dms >>
    /\ running = t
    /\ tasks[t].pc = "loop"
    /\ IF tasks[t].pending = {}
       THEN Set(t, [tasks[t] EXCEPT !.pc = "after_loop"])
       ELSE \E lang \in tasks[t].pending :
              IF lang # tasks[t].source
              THEN Set(t, [tasks[t] EXCEPT
                             !.pending = IF lang \in tasks[t].asked THEN @ \ {lang} ELSE @,
                             !.lang = lang,
                             !.asked = @ \cup {lang},
                             !.prov = "deepl",
                             !.tm = NoTm,
                             !.ret = None,
                             !.pc = "tm_try"])
              ELSE Set(t, [tasks[t] EXCEPT !.pending = @ \ {lang}])
    /\ UNCHANGED << env, guild_settings, user_preferences, processing, cache, semaphore,
                    translation_stats, reaction_messages, running, delivered, replies,
                    outbound, window >>

\* `for lang in target_langs: if lang != source_lang:` the next language, in the
\* set's iteration order, goes to translate_message
Main_Loop(t) ==
    /\ env.variant = "main"
    /\ UNCHANGED << reactions, dms >>
    /\ running = t
    /\ tasks[t].pc = "loop"
    /\ IF tasks[t].pending = {}
       THEN Set(t, [tasks[t] EXCEPT !.pc = "after_loop"])
       ELSE \E lang \in tasks[t].pending :
              IF lang # tasks[t].source
              THEN Set(t, [tasks[t] EXCEPT
                             !.pending = @ \ {lang},
                             !.lang = lang,
                             !.asked = @ \cup {lang},
                             !.prov = "deepl",
                             !.tm = NoTm,
                             !.ret = None,
                             !.pc = "tm_try"])
              ELSE Set(t, [tasks[t] EXCEPT !.pending = @ \ {lang}])
    /\ UNCHANGED << env, guild_settings, user_preferences, processing, cache, semaphore,
                    translation_stats, reaction_messages, running, delivered, replies,
                    outbound, window >>

----------------------------------------------------------------------------
(* main.py TranslationHandler.translate_message *)

TmMark(tm, p, status, args, ret, hit) ==
    [tm EXCEPT ![p] = [status |-> status, args |-> args, ret |-> ret, hit |-> hit]]

\* Faulty variant: the Azure branch follows the DeepL branch whatever DeepL returned
AfterAdapterAlwaysAzure(task, p, val, args, hit) ==
    IF p = "deepl"
    THEN [task EXCEPT !.prov = "azure", !.pc = "tm_try",
                      !.tm = TmMark(@, p, IF Truthy(val) THEN "some" ELSE "none",
                                    args, val, hit)]
    ELSE [task EXCEPT !.ret = IF Truthy(val) THEN val ELSE None, !.pc = "tm_ret",
                      !.tm = TmMark(@, p, IF Truthy(val) THEN "some" ELSE "none",
                                    args, val, hit)]

\* Faulty variant: whatever DeepL returned is returned, Azure is never tried after it
AfterAdapterNoFallback(task, p, val, args, hit) ==
    [task EXCEPT !.ret = IF Truthy(val) THEN val ELSE None, !.pc = "tm_ret",
                 !.tm = TmMark(@, p, IF Truthy(val) THEN "some" ELSE "none",
                               args, val, hit)]

\* translate_message after adapter p returned val: a truthy value is returned at
\* once; after DeepL without one the Azure branch follows; after Azure without
\* one the method returns None
AfterAdapter(task, p, val, args, hit) ==
    IF Truthy(val)
    THEN [task EXCEPT !.ret = val, !.pc = "tm_ret",
                      !.tm = TmMark(@, p, "some", args, val, hit)]
    ELSE IF p = "deepl"
    THEN [task EXCEPT !.prov = "azure", !.pc = "tm_try",
                      !.tm = TmMark(@, p, "none", args, val, hit)]
    ELSE [task EXCEPT !.ret = None, !.pc = "tm_ret",
                      !.tm = TmMark(@, p, "none", args, val, hit)]

\* translate_message when adapter p is not configured
AdapterAbsent(task, p) ==
    IF p = "deepl"
    THEN [task EXCEPT !.prov = "azure", !.pc = "tm_try",
                      !.tm = TmMark(@, p, "absent", <<>>, None, FALSE)]
    ELSE [task EXCEPT !.ret = None, !.pc = "tm_ret",
                      !.tm = TmMark(@, p, "absent", <<>>, None, FALSE)]

\* the arguments on_message gives translate_message, which hands them on unchanged
TmArgs(task) == << Content(task.msg), task.lang, task.source >>

\* translate_message reaches one of its two branches and calls the adapter, which
\* answers from its cache, answers None, raises, or sends its request
Main_TmTry(t) ==
    /\ env.variant = "main"
    /\ UNCHANGED << reactions, dms >>
    /\ running = t
    /\ tasks[t].pc = "tm_try"
    /\ LET task == tasks[t]
           p    == task.prov
           args == TmArgs(task)
           pre  == MainAdapterPre(p, args[1], args[2], args[3])
       IN IF p \notin env.translators
          THEN /\ Set(t, AdapterAbsent(task, p))
               /\ UNCHANGED << running, outbound >>
          ELSE CASE pre.kind = "hit" ->
                      /\ Set(t, [AfterAdapter(task, p, pre.val, args, TRUE) EXCEPT
                                   !.calls = @ + 1])
                      /\ UNCHANGED << running, outbound >>
                 [] pre.kind = "none" ->
                      /\ Set(t, [AfterAdapter(task, p, None, args, FALSE) EXCEPT
                                   !.calls = @ + 1])
                      /\ UNCHANGED << running, outbound >>
                 [] pre.kind = "raise" ->
                      /\ Set(t, [task EXCEPT !.pc = IF task.kind = "react"
                                                    THEN "r_done" ELSE "sleep",
                                             !.raised = TRUE,
                                             !.outcome = "error", !.calls = @ + 1,
                                             !.tm = TmMark(@, p, "raised", args, None, FALSE)])
                      /\ running' = 0
                      /\ UNCHANGED outbound
                 [] pre.kind = "send" ->
                      /\ Set(t, [task EXCEPT !.pc = "await_tm", !.calls = @ + 1,
                                             !.tm = TmMark(@, p, "sent", args, None, FALSE)])
                      /\ running' = 0
                      /\ outbound' = [outbound EXCEPT ![p] = @ + 1]
    /\ UNCHANGED << env, guild_settings, user_preferences, processing, cache, semaphore,
                    translation_stats, reaction_messages, delivered, replies, window >>

\* The provider's response reaches the adapter: status 200 is cached and returned,
\* anything else gives None; translate_message goes on
Main_AdapterReturn(t, resp) ==
    /\ env.variant = "main"
    /\ UNCHANGED << reactions, dms >>
    /\ running = 0
    /\ tasks[t].pc = "await_tm"
    /\ LET task == tasks[t]
           p    == task.prov
           args == TmArgs(task)
           key  == MainCacheKey(p, args[1], args[2], args[3])
       IN /\ cache' = [cache EXCEPT ![p] = MainAdapterStore(@, key, resp, args)]
          /\ Set(t, AfterAdapter(task, p, resp.text, args, FALSE))
    /\ running' = t
    /\ UNCHANGED << env, guild_settings, user_preferences, processing, semaphore,
                    translation_stats, reaction_messages, delivered, replies,
                    outbound, window >>

\* Faulty variant: the loop is left at the first language without a translation
Main_TmReturnAborting(t) ==
    /\ env.variant = "main"
    /\ UNCHANGED << reactions, dms >>
    /\ running = t
    /\ tasks[t].pc = "tm_ret"
    /\ tasks[t].kind = "msg"
    /\ IF Truthy(tasks[t].ret)
       THEN /\ Set(t, [tasks[t] EXCEPT
                         !.translations = @ \cup {<<tasks[t].lang, tasks[t].ret>>},
                         !.pc = "loop"])
            /\ translation_stats' = [translation_stats EXCEPT ![tasks[t].lang] = @ + 1]
       ELSE /\ Set(t, [tasks[t] EXCEPT !.failed = @ \cup {tasks[t].lang},
                                       !.pc = "after_loop"])
            /\ UNCHANGED translation_stats
    /\ UNCHANGED << env, guild_settings, user_preferences, processing, cache, semaphore,
                    reaction_messages, running, delivered, replies, outbound, window >>

\* on_message: `if translation := ...: translations[lang] = translation;
\* translation_stats[lang] += 1`
Main_TmReturn(t) ==
    /\ env.variant = "main"
    /\ UNCHANGED << reactions, dms >>
    /\ running = t
    /\ tasks[t].pc = "tm_ret"
    /\ tasks[t].kind = "msg"
    /\ IF Truthy(tasks[t].ret)
       THEN /\ Set(t, [tasks[t] EXCEPT
                         !.translations = @ \cup {<<tasks[t].lang, tasks[t].ret>>},
                         !.pc = "loop"])
            /\ translation_stats' = [translation_stats EXCEPT ![tasks[t].lang] = @ + 1]
       ELSE /\ Set(t, [tasks[t] EXCEPT !.failed = @ \cup {tasks[t].lang}, !.pc = "loop"])
            /\ UNCHANGED translation_stats
    /\ UNCHANGED << env, guild_settings, user_preferences, processing, cache, semaphore,
                    reaction_messages, running, delivered, replies, outbound, window >>

\* create_translation_embed: one field per translation whose language is registered
EmbedSections(translations) == {tr[1] : tr \in translations} \cap Codes

\* on_message after the loop: `if translations:` the embed is built and
\* message.reply awaited
Main_AfterLoop(t) ==
    /\ env.variant = "main"
    /\ UNCHANGED << reactions, dms >>
    /\ running = t
    /\ tasks[t].pc = "after_loop"
    /\ IF tasks[t].translations # {}
       THEN Set(t, [tasks[t] EXCEPT !.pc = "await_reply"])
       ELSE Set(t, [tasks[t] EXCEPT !.pc = "sleep", !.outcome = "nothing"])
    /\ running' = 0
    /\ UNCHANGED << env, guild_settings, user_preferences, processing, cache, semaphore,
                    translation_stats, reaction_messages, delivered, replies,
                    outbound, window >>

NextReplyId == 100 + Len(replies) + 1

\* Faulty variant: the context is not stored when message.reply returns
Main_ReplyReturnNotRetaining(t, ok) ==
    /\ env.variant = "main"
    /\ UNCHANGED << reactions, dms >>
    /\ running = 0
    /\ tasks[t].pc = "await_reply"
    /\ IF ~ok
       THEN /\ Set(t, [tasks[t] EXCEPT !.pc = "sleep", !.raised = TRUE,
                                       !.outcome = "error"])
            /\ UNCHANGED << replies, window, reaction_messages, running >>
       ELSE /\ replies' = Append(replies,
                            [id |-> NextReplyId, to |-> tasks[t].msg,
                             sections |-> EmbedSections(tasks[t].translations),
                             source |-> tasks[t].source])
            /\ window' = [window EXCEPT ![tasks[t].msg] = @ + 1]
            /\ IF Get(LocalSettings(t), "flag_reactions", TRUE)
               THEN /\ reaction_messages' = reaction_messages
                    /\ Set(t, [tasks[t] EXCEPT
                                 !.pc = "react", !.reply = NextReplyId,
                                 !.pending = TranslatedLangs(t),
                                 !.outcome = "replied"])
                    /\ running' = t
               ELSE /\ Set(t, [tasks[t] EXCEPT !.pc = "sleep", !.reply = NextReplyId,
                                               !.outcome = "replied"])
                    /\ UNCHANGED << reaction_messages, running >>
    /\ UNCHANGED << env, guild_settings, user_preferences, processing, cache, semaphore,
                    translation_stats, delivered, outbound >>

\* message.reply returns the posted reply, or raises; with flag reactions enabled
\* the reply context is retained and the reactions are attached one by one
Main_ReplyReturn(t, ok) ==
    /\ env.variant = "main"
    /\ UNCHANGED << reactions, dms >>
    /\ running = 0
    /\ tasks[t].pc = "await_reply"
    /\ IF ~ok
       THEN /\ Set(t, [tasks[t] EXCEPT !.pc = "sleep", !.raised = TRUE,
                                       !.outcome = "error"])
            /\ UNCHANGED << replies, window, reaction_messages, running >>
       ELSE /\ replies' = Append(replies,
                            [id |-> NextReplyId, to |-> tasks[t].msg,
                             sections |-> EmbedSections(tasks[t].translations),
                             source |-> tasks[t].source])
            /\ window' = [window EXCEPT ![tasks[t].msg] = @ + 1]
            /\ IF Get(LocalSettings(t), "flag_reactions", TRUE)
               THEN /\ reaction_messages' = reaction_messages \cup
                          {[reply |-> NextReplyId, original |-> tasks[t].msg,
                            translations |-> tasks[t].translations,
                            source_lang |-> tasks[t].source]}
                    /\ Set(t, [tasks[t] EXCEPT
                                 !.pc = "react", !.reply = NextReplyId,
                                 !.pending = TranslatedLangs(t),
                                 !.outcome = "replied"])
                    /\ running' = t
               ELSE /\ Set(t, [tasks[t] EXCEPT !.pc = "sleep", !.reply = NextReplyId,
                                               !.outcome = "replied"])
                    /\ UNCHANGED << reaction_messages, running >>
    /\ UNCHANGED << env, guild_settings, user_preferences, processing, cache, semaphore,
                    translation_stats, delivered, outbound >>

\* `for lang in translations.keys(): await msg.add_reaction(flag)`
Main_React(t) ==
    /\ env.variant = "main"
    /\ UNCHANGED << reactions, dms >>
    /\ running = t
    /\ tasks[t].pc = "react"
    /\ IF tasks[t].pending = {}
       THEN /\ Set(t, [tasks[t] EXCEPT !.pc = "sleep"])
            /\ running' = 0
       ELSE \E lang \in tasks[t].pending :
              IF lang \in Codes
              THEN /\ Set(t, [tasks[t] EXCEPT !.pending = @ \ {lang}, !.lang = lang,
                                              !.pc = "await_react"])
                   /\ running' = 0
              ELSE /\ Set(t, [tasks[t] EXCEPT !.pending = @ \ {lang}])
                   /\ UNCHANGED running
    /\ UNCHANGED << env, guild_settings, user_preferences, processing, cache, semaphore,
                    translation_stats, reaction_messages, delivered, replies,
                    outbound, window >>

\* Faulty variant: a reaction that could not be attached ends the loop
Main_ReactReturnGivingUp(t, ok) ==
    /\ env.variant = "main"
    /\ UNCHANGED << reactions, dms >>
    /\ running = 0
    /\ tasks[t].pc = "await_react"
    /\ Set(t, [tasks[t] EXCEPT !.pc = "react",
                               !.pending = IF ok THEN @ ELSE {}])
    /\ running' = t
    /\ UNCHANGED << env, guild_settings, user_preferences, processing, cache, semaphore,
                    translation_stats, reaction_messages, delivered, replies,
                    outbound, window >>

\* add_reaction returns or raises: either way the loop goes on (bare except: pass)
Main_ReactReturn(t, ok) ==
    /\ env.variant = "main"
    /\ UNCHANGED << reactions, dms >>
    /\ running = 0
    /\ tasks[t].pc = "await_react"
    /\ Set(t, [tasks[t] EXCEPT !.pc = "react"])
    /\ running' = t
    /\ UNCHANGED << env, guild_settings, user_preferences, processing, cache, semaphore,
                    translation_stats, reaction_messages, delivered, replies,
                    outbound, window >>

----------------------------------------------------------------------------
(* main.py TranslationCommands *)

\* Faulty variant: the codes are stored as typed
valid_langsUnfiltered(languages) == languages

\* set_user_language: `[lang for lang in languages if lang in LANGUAGES]`
valid_langs(languages) ==
    LET Registered(lang) == lang \in Codes
    IN SelectSeq(languages, Registered)

\* set_user_language (setlang): without a registered code among the arguments
\* nothing is stored; else the list of the registered ones replaces the author's
\* stored languages
Main_SetLang(member, languages) ==
    /\ env.variant = "main"
    /\ running = 0
    /\ user_preferences' =
          IF valid_langs(languages) = <<>>
          THEN user_preferences
          ELSE [user_preferences EXCEPT ![member] = valid_langs(languages)]
    /\ UNCHANGED << env, guild_settings, processing, cache, semaphore,
                    translation_stats, reaction_messages, tasks, running, delivered,
                    replies, outbound, window, reactions, dms >>

\* `d[key] = value` on a dict
DictSet(d, key, value) ==
    [k \in DOMAIN d \cup {key} |-> IF k = key THEN value ELSE d[k]]

\* config_mode: TranslationMode(mode) raises ValueError for a string that is no
\* mode and nothing is stored; else the guild's dict, made by the defaultdict when
\* the guild had none, gets the mode
Main_ConfigMode(mode) ==
    /\ env.variant = "main"
    /\ running = 0
    /\ guild_settings' =
          IF mode \in TranslationMode
          THEN [present |-> TRUE, d |-> DictSet(guild_settings.d, "mode", mode)]
          ELSE guild_settings
    /\ UNCHANGED << env, user_preferences, processing, cache, semaphore,
                    translation_stats, reaction_messages, tasks, running, delivered,
                    replies, outbound, window, reactions, dms >>

----------------------------------------------------------------------------
(* main.py TranslationEvents.on_raw_reaction_add *)

\* self.bot.user.id
BotUser == "bot"

\* The reaction-added events told apart by on_raw_reaction_add: a user's flag on
\* the first reply posted (a language the reply holds, one it does not), a glyph
\* that is no flag, a flag on a message the bot retains nothing for, and the
\* bot's own reaction
ReactionEvents ==
    { [user |-> "bob", message |-> 101, emoji |-> LANGUAGES["es"].flag],
      [user |-> "bob", message |-> 101, emoji |-> LANGUAGES["en"].flag],
      [user |-> "bob", message |-> 101, emoji |-> "thumbs-up"],
      [user |-> "bob", message |-> 999, emoji |-> LANGUAGES["es"].flag],
      [user |-> BotUser, message |-> 101, emoji |-> LANGUAGES["es"].flag] }

\* `payload.message_id not in self.bot.reaction_messages`, and the entry
Retained(id) == {ctx \in reaction_messages : ctx.reply = id}

\* the loop over LANGUAGES.items() with its break: the language whose flag is the glyph
FlagLang(emoji) ==
    IF \E code \in Codes : LANGUAGES[code].flag = emoji
    THEN CHOOSE code \in Codes : LANGUAGES[code].flag = emoji
    ELSE None

\* Faulty variant: the retained translations are not looked at
RetainedTranslationNever(ctx, lang) == None

\* msg_data["translations"].get(target_lang)
RetainedTranslation(ctx, lang) ==
    IF \E tr \in ctx.translations : tr[1] = lang
    THEN (CHOOSE tr \in ctx.translations : tr[1] = lang)[2]
    ELSE None

\* Faulty variant: a glyph that is no flag is not a reason to return
ReactionIgnoredGlyphBlind(r) ==
    \/ r.user = BotUser
    \/ Retained(r.message) = {}

\* the three early returns of on_raw_reaction_add
ReactionIgnored(r) ==
    \/ r.user = BotUser
    \/ Retained(r.message) = {}
    \/ ~Truthy(FlagLang(r.emoji))

\* self.bot.get_user(payload.user_id): the members of the guild are in the user
\* cache, which guild.chunk() filled before any reply was retained
KnownUser(user) == user \in Members

\* Faulty variant: the handler ends without sending anything
ReactionDeliverNothing(task, translation) ==
    [task EXCEPT !.ret = translation, !.pc = "r_done", !.outcome = "nothing"]

\* `if translation:` then `if user:` then `await user.send(embed=embed)`
ReactionDeliver(task, translation) ==
    IF Truthy(translation) /\ KnownUser(task.reactor)
    THEN [task EXCEPT !.ret = translation, !.pc = "r_await_send"]
    ELSE [task EXCEPT !.ret = translation, !.pc = "r_done", !.outcome = "nothing"]

\* A reaction-added event arrives: the early returns, the retained translation
\* if there is one, else translate_message on demand
Main_OnReaction(t, r) ==
    /\ env.variant = "main"
    /\ running = 0
    /\ reactions.count < MaxReactions
    /\ FreeSlot(t)
    /\ reactions' = [count |-> reactions.count + 1, last |-> r]
    /\ UNCHANGED << env, guild_settings, user_preferences, processing, cache, semaphore,
                    translation_stats, reaction_messages, delivered, replies,
                    outbound, window, dms >>
    /\ IF ReactionIgnored(r)
       THEN UNCHANGED << tasks, running >>
       ELSE LET msg_data    == CHOOSE ctx \in Retained(r.message) : TRUE
                target_lang == FlagLang(r.emoji)
                translation == RetainedTranslation(msg_data, target_lang)
                task == [IdleTask EXCEPT !.kind = "react", !.reactor = r.user,
                                         !.at = reactions.count + 1,
                                         !.msg = msg_data.original,
                                         !.reply = r.message,
                                         !.lang = target_lang,
                                         !.source = msg_data.source_lang]
            IN IF Truthy(translation)
               THEN /\ Set(t, ReactionDeliver(task, translation))
                    /\ UNCHANGED running
               ELSE /\ Set(t, [task EXCEPT !.pc = "tm_try", !.prov = "deepl"])
                    /\ running' = t

\* Faulty variant: the text translated on demand is written into the context
Main_ReactionTmReturnWriteBack(t) ==
    /\ env.variant = "main"
    /\ running = t
    /\ tasks[t].pc = "tm_ret"
    /\ tasks[t].kind = "react"
    /\ Set(t, ReactionDeliver(tasks[t], tasks[t].ret))
    /\ running' = 0
    /\ reaction_messages' =
          {IF ctx.reply = tasks[t].reply /\ Truthy(tasks[t].ret)
           THEN [ctx EXCEPT !.translations = @ \cup {<<tasks[t].lang, tasks[t].ret>>}]
           ELSE ctx : ctx \in reaction_messages}
    /\ UNCHANGED << env, guild_settings, user_preferences, processing, cache, semaphore,
                    translation_stats, delivered, replies,
                    outbound, window, reactions, dms >>

\* translate_message has returned to on_raw_reaction_add
Main_ReactionTmReturn(t) ==
    /\ env.variant = "main"
    /\ running = t
    /\ tasks[t].pc = "tm_ret"
    /\ tasks[t].kind = "react"
    /\ Set(t, ReactionDeliver(tasks[t], tasks[t].ret))
    /\ running' = 0
    /\ UNCHANGED << env, guild_settings, user_preferences, processing, cache, semaphore,
                    translation_stats, reaction_messages, delivered, replies,
                    outbound, window, reactions, dms >>

\* What user.send can end with: the message is sent, discord.Forbidden, or another
\* error of the platform
SendResults == {"ok", "forbidden", "error"}

\* Faulty variant: discord.Forbidden is not caught and leaves the handler like any
\* other exception
Main_SendReturnUncaught(t, res) ==
    /\ env.variant = "main"
    /\ running = 0
    /\ tasks[t].pc = "r_await_send"
    /\ IF res = "ok"
       THEN /\ dms' = Append(dms, [to |-> tasks[t].reactor, text |-> tasks[t].ret,
                                   reply |-> tasks[t].reply, lang |-> tasks[t].lang])
            /\ Set(t, [tasks[t] EXCEPT !.pc = "r_done", !.outcome = "sent"])
       ELSE /\ UNCHANGED dms
            /\ Set(t, [tasks[t] EXCEPT !.pc = "r_done",
                                       !.raised = TRUE,
                                       !.outcome = IF res = "error" THEN "error"
                                                   ELSE "dropped"])
    /\ UNCHANGED << env, guild_settings, user_preferences, processing, cache, semaphore,
                    translation_stats, reaction_messages, running, delivered, replies,
                    outbound, window, reactions >>

\* user.send returns or raises: `except discord.Forbidden: pass`, any other
\* exception leaves the handler
Main_SendReturn(t, res) ==
    /\ env.variant = "main"
    /\ running = 0
    /\ tasks[t].pc = "r_await_send"
    /\ IF res = "ok"
       THEN /\ dms' = Append(dms, [to |-> tasks[t].reactor, text |-> tasks[t].ret,
                                   reply |-> tasks[t].reply, lang |-> tasks[t].lang])
            /\ Set(t, [tasks[t] EXCEPT !.pc = "r_done", !.outcome = "sent"])
       ELSE /\ UNCHANGED dms
            /\ Set(t, [tasks[t] EXCEPT !.pc = "r_done",
                                       !.raised = (res = "error"),
                                       !.outcome = IF res = "error" THEN "error"
                                                   ELSE "dropped"])
    /\ UNCHANGED << env, guild_settings, user_preferences, processing, cache, semaphore,
                    translation_stats, reaction_messages, running, delivered, replies,
                    outbound, window, reactions >>

\* on_raw_reaction_add is over and its task is gone
Main_ReactionEnd(t) ==
    /\ env.variant = "main"
    /\ running = 0
    /\ tasks[t].pc = "r_done"
    /\ Set(t, IdleTask)
    /\ UNCHANGED << env, guild_settings, user_preferences, processing, cache, semaphore,
                    translation_stats, reaction_messages, running, delivered, replies,
                    outbound, window, reactions, dms >>

\* Faulty variant: the handler ends after its delay and the id stays in the set
Main_ReleaseKeeping(t) ==
    /\ env.variant = "main"
    /\ UNCHANGED << reactions, dms >>
    /\ running = 0
    /\ tasks[t].pc = "sleep"
    /\ processing' = processing
    /\ Set(t, IdleTask)
    /\ UNCHANGED << env, guild_settings, user_preferences, cache, semaphore,
                    translation_stats, reaction_messages, running, delivered, replies,
                    outbound, window >>

\* finally: asyncio.sleep(5) is over, the id leaves the de-duplication set
Main_Release(t) ==
    /\ env.variant = "main"
    /\ UNCHANGED << reactions, dms >>
    /\ running = 0
    /\ tasks[t].pc = "sleep"
    /\ processing' = processing \ {tasks[t].msg}
    /\ Set(t, IdleTask)
    /\ UNCHANGED << env, guild_settings, user_preferences, cache, semaphore,
                    translation_stats, reaction_messages, running, delivered, replies,
                    outbound, window >>

\* main.py cleanup_cache, run every hour: a cache above the threshold keeps its
\* last entries
MainCleaned(c) == IF Len(c) > MainCacheLimit THEN CacheLast(c, MainCacheKeep) ELSE c

Main_CleanupCache ==
    /\ env.variant = "main"
    /\ UNCHANGED << reactions, dms >>
    /\ running = 0
    /\ cache' = [p \in DOMAIN cache |->
                   IF p \in env.translators THEN MainCleaned(cache[p]) ELSE cache[p]]
    /\ UNCHANGED << env, guild_settings, user_preferences, processing, semaphore,
                    translation_stats, reaction_messages, tasks, running, delivered,
                    replies, outbound, window >>

----------------------------------------------------------------------------
(* Provider adapters of main_oracle.py *)

\* main_oracle.py TranslationService.translate: the cache key
OracleCacheKey(text, target_lang, source_lang) ==
    Prefix(text, KeyPrefixLen) \o "_" \o target_lang \o "_" \o Str(source_lang)

\* main_oracle.py AzureTranslator.detect_language: the cache key
DetectCacheKey(text) == "detect_" \o Prefix(text, KeyPrefixLen)

\* Faulty variant: a result is stored whatever the cache holds
OracleStoreNoSizeTest(c, key, result, of) ==
    IF Truthy(result) THEN CachePut(c, key, result, of) ELSE c

\* main_oracle.py translate: `if result and len(self.cache) < CACHE_SIZE`
OracleStore(c, key, result, of) ==
    IF Truthy(result) /\ Len(c) < CACHE_SIZE THEN CachePut(c, key, result, of) ELSE c

\* main_oracle.py detect_language: a detected code that maps to a registry code
\* is stored under the detect key, whatever the cache holds
OracleDetectStore(c, key, resp, of) ==
    IF resp.ok /\ MapDetected(resp.code) \in Codes
    THEN CachePut(c, key, MapDetected(resp.code), of)
    ELSE c

\* main_oracle.py: `translators.get("deepl") or translators.get("azure")`
OracleTranslator == IF "deepl" \in env.translators THEN "deepl" ELSE "azure"

\* main_oracle.py cleanup_cache: list(cache.items())[-CACHE_SIZE//2:], where
\* -CACHE_SIZE//2 is the floor of (-CACHE_SIZE)/2
OracleCleaned(c) ==
    IF Len(c) > CACHE_SIZE THEN CacheLast(c, 0 - ((0 - CACHE_SIZE) \div 2)) ELSE c

----------------------------------------------------------------------------
(* main_oracle.py TranslationBot.on_message and auto_translate *)

\* `message.author.bot or not message.content or message.id in self.processing`
OracleIgnores(m) ==
    \/ env.members[Messages[m].author].bot
    \/ Messages[m].content = ""

\* A message-created event arrives: the guard, the de-duplication set,
\* process_commands (the message is no command), and auto_translate up to the
\* detection request or its cached answer
Oracle_OnMessage(t, m) ==
    /\ env.variant = "oracle"
    /\ UNCHANGED << reactions, dms >>
    /\ running = 0
    /\ delivered < env.events
    /\ FreeSlot(t)
    /\ delivered' = delivered + 1
    /\ UNCHANGED << env, guild_settings, user_preferences, cache, semaphore,
                    translation_stats, reaction_messages, replies >>
    /\ IF OracleIgnores(m) \/ AlreadyProcessing(Messages[m].id)
       THEN UNCHANGED << processing, tasks, outbound, window, running >>
       ELSE /\ processing' = processing \cup {Messages[m].id}
            /\ window' = [window EXCEPT ![Messages[m].id] = 0]
            /\ LET key  == DetectCacheKey(Messages[m].content)
                   task == [IdleTask EXCEPT !.msg = Messages[m].id, !.gs = "own",
                                            !.at = delivered + 1]
               IN IF ~Messages[m].guild \/ ~HasDetector(env.translators)
                  THEN /\ Set(t, [task EXCEPT !.pc = "sleep", !.outcome = "nodetect"])
                       /\ UNCHANGED << outbound, running >>
                  ELSE IF CacheHas(cache["azure"], key)
                  THEN /\ Set(t, [task EXCEPT !.pc = "o_resolve",
                                              !.source = CacheGet(cache["azure"], key)])
                       /\ running' = t
                       /\ UNCHANGED outbound
                  ELSE /\ Set(t, [task EXCEPT !.pc = "o_await_detect"])
                       /\ outbound' = [outbound EXCEPT !["azure"] = @ + 1]
                       /\ UNCHANGED running

\* detect_language's request returns: a mapped code is cached and returned, an
\* unmapped one returned as it is; `if not source_lang: return`
Oracle_DetectReturn(t, resp) ==
    /\ env.variant = "oracle"
    /\ UNCHANGED << reactions, dms >>
    /\ running = 0
    /\ tasks[t].pc = "o_await_detect"
    /\ LET source == IF resp.ok THEN MapDetected(resp.code) ELSE None
           key    == DetectCacheKey(Content(tasks[t].msg))
       IN /\ cache' = [cache EXCEPT !["azure"] = OracleDetectStore(@, key, resp,
                                                            << Content(tasks[t].msg) >>)]
          /\ IF Detected(source)
             THEN /\ Set(t, [tasks[t] EXCEPT !.pc = "o_resolve", !.source = source])
                  /\ running' = t
             ELSE /\ Set(t, [tasks[t] EXCEPT !.pc = "sleep", !.outcome = "nodetect"])
                  /\ UNCHANGED running
    /\ UNCHANGED << env, guild_settings, user_preferences, processing, semaphore,
                    translation_stats, reaction_messages, delivered, replies,
                    outbound, window >>

\* auto_translate: the role loop; `if target_langs:` one translate coroutine per
\* language on the one translator chosen
Oracle_Resolve(t) ==
    /\ env.variant = "oracle"
    /\ UNCHANGED << reactions, dms >>
    /\ running = t
    /\ tasks[t].pc = "o_resolve"
    /\ LET target_langs == OracleTargetLangs(Messages[MsgOf(tasks[t].msg)].author,
                                             tasks[t].source)
       IN IF target_langs = {}
          THEN /\ Set(t, [tasks[t] EXCEPT !.pc = "sleep", !.resolved = TRUE,
                                          !.outcome = "notargets"])
               /\ running' = 0
          ELSE /\ Set(t, [tasks[t] EXCEPT !.pc = "o_gather",
                                          !.resolved = TRUE,
                                          !.target_langs = target_langs,
                                          !.pending = target_langs,
                                          !.prov = OracleTranslator])
               /\ UNCHANGED running
    /\ UNCHANGED << env, guild_settings, user_preferences, processing, cache, semaphore,
                    translation_stats, reaction_messages, delivered, replies,
                    outbound, window >>

\* `for lang, task in translation_tasks: await asyncio.wait_for(task, timeout=10)`:
\* the next coroutine is wrapped in a task and awaited
Oracle_Gather(t) ==
    /\ env.variant = "oracle"
    /\ UNCHANGED << reactions, dms >>
    /\ running = t
    /\ tasks[t].pc = "o_gather"
    /\ IF tasks[t].pending = {}
       THEN /\ Set(t, [tasks[t] EXCEPT !.pc = "o_after"])
            /\ UNCHANGED running
       ELSE /\ \E lang \in tasks[t].pending :
                 Set(t, [tasks[t] EXCEPT !.pending = @ \ {lang}, !.lang = lang,
                                         !.asked = @ \cup {lang}, !.tm = NoTm,
                                         !.ret = None, !.pc = "o_tr_start"])
            /\ running' = 0
    /\ UNCHANGED << env, guild_settings, user_preferences, processing, cache, semaphore,
                    translation_stats, reaction_messages, delivered, replies,
                    outbound, window >>

\* auto_translate with the result of one translate call: `if result:
\* translations[lang] = result; translation_stats[lang] += 1`
OracleTaken(task, result) ==
    IF Truthy(result)
    THEN [task EXCEPT !.translations = @ \cup {<<task.lang, result>>},
                      !.ret = result, !.pc = "o_gather"]
    ELSE [task EXCEPT !.failed = @ \cup {task.lang}, !.ret = result, !.pc = "o_gather"]

OracleCounted(stats, task, result) ==
    IF Truthy(result) THEN [stats EXCEPT ![task.lang] = @ + 1] ELSE stats

\* _do_translate before its request: an unregistered target gives None
OracleDoTranslatePre(target_lang) == IF target_lang \notin Codes THEN "none" ELSE "send"

\* translate starts: a semaphore slot is taken, the cache consulted, and on a
\* miss _do_translate sends its request (the source language is not looked up)
Oracle_TranslateStart(t) ==
    /\ env.variant = "oracle"
    /\ UNCHANGED << reactions, dms >>
    /\ running = 0
    /\ tasks[t].pc = "o_tr_start"
    /\ semaphore[tasks[t].prov] > 0
    /\ LET task == tasks[t]
           p    == task.prov
           args == TmArgs(task)
           key  == OracleCacheKey(args[1], args[2], args[3])
       IN IF CacheHas(cache[p], key)
          THEN /\ Set(t, [OracleTaken(task, CacheGet(cache[p], key)) EXCEPT
                            !.calls = @ + 1,
                            !.tm = TmMark(@, p, IF Truthy(CacheGet(cache[p], key))
                                                THEN "some" ELSE "none",
                                          args, CacheGet(cache[p], key), TRUE)])
               /\ translation_stats' =
                      OracleCounted(translation_stats, task, CacheGet(cache[p], key))
               /\ running' = t
               /\ UNCHANGED << semaphore, outbound >>
          ELSE IF OracleDoTranslatePre(args[2]) = "none"
          THEN /\ Set(t, [OracleTaken(task, None) EXCEPT
                            !.calls = @ + 1,
                            !.tm = TmMark(@, p, "none", args, None, FALSE)])
               /\ running' = t
               /\ UNCHANGED << semaphore, outbound, translation_stats >>
          ELSE /\ Set(t, [task EXCEPT !.pc = "o_await_tr", !.calls = @ + 1,
                                      !.tm = TmMark(@, p, "sent", args, None, FALSE)])
               /\ semaphore' = [semaphore EXCEPT ![p] = @ - 1]
               /\ outbound' = [outbound EXCEPT ![p] = @ + 1]
               /\ UNCHANGED << running, translation_stats >>
    /\ UNCHANGED << env, guild_settings, user_preferences, processing, cache,
                    reaction_messages, delivered, replies, window >>

\* The provider's response: the result is cached while the cache is below
\* CACHE_SIZE, the slot is given back, and auto_translate takes the result
Oracle_TranslateReturn(t, resp) ==
    /\ env.variant = "oracle"
    /\ UNCHANGED << reactions, dms >>
    /\ running = 0
    /\ tasks[t].pc = "o_await_tr"
    /\ LET task == tasks[t]
           p    == task.prov
           args == TmArgs(task)
           key  == OracleCacheKey(args[1], args[2], args[3])
       IN /\ cache' = [cache EXCEPT ![p] = OracleStore(@, key, resp.text, args)]
          /\ semaphore' = [semaphore EXCEPT ![p] = @ + 1]
          /\ Set(t, [OracleTaken(task, resp.text) EXCEPT
                       !.tm = TmMark(@, p, IF Truthy(resp.text) THEN "some" ELSE "none",
                                     args, resp.text, FALSE)])
          /\ translation_stats' = OracleCounted(translation_stats, task, resp.text)
    /\ running' = t
    /\ UNCHANGED << env, guild_settings, user_preferences, processing,
                    reaction_messages, delivered, replies, outbound, window >>

\* Faulty variant: the cancelled translate task keeps its slot
Oracle_TimeoutLeaking(t) ==
    /\ env.variant = "oracle"
    /\ UNCHANGED << reactions, dms >>
    /\ running = 0
    /\ tasks[t].pc = "o_await_tr"
    /\ semaphore' = semaphore
    /\ Set(t, [tasks[t] EXCEPT !.failed = @ \cup {tasks[t].lang}, !.pc = "o_gather",
                               !.tm = TmMark(@, tasks[t].prov, "timeout",
                                             TmArgs(tasks[t]), None, FALSE)])
    /\ running' = t
    /\ UNCHANGED << env, guild_settings, user_preferences, processing, cache,
                    translation_stats, reaction_messages, delivered, replies,
                    outbound, window >>

\* wait_for's 10 seconds pass first: the translate task is cancelled (its slot
\* given back by `async with`), TimeoutError is logged and the loop goes on
Oracle_Timeout(t) ==
    /\ env.variant = "oracle"
    /\ UNCHANGED << reactions, dms >>
    /\ running = 0
    /\ tasks[t].pc = "o_await_tr"
    /\ semaphore' = [semaphore EXCEPT ![tasks[t].prov] = @ + 1]
    /\ Set(t, [tasks[t] EXCEPT !.failed = @ \cup {tasks[t].lang}, !.pc = "o_gather",
                               !.tm = TmMark(@, tasks[t].prov, "timeout",
                                             TmArgs(tasks[t]), None, FALSE)])
    /\ running' = t
    /\ UNCHANGED << env, guild_settings, user_preferences, processing, cache,
                    translation_stats, reaction_messages, delivered, replies,
                    outbound, window >>

\* auto_translate after the loop: `if translations:` the embed and message.reply
Oracle_After(t) ==
    /\ env.variant = "oracle"
    /\ UNCHANGED << reactions, dms >>
    /\ running = t
    /\ tasks[t].pc = "o_after"
    /\ IF tasks[t].translations # {}
       THEN Set(t, [tasks[t] EXCEPT !.pc = "o_await_reply"])
       ELSE Set(t, [tasks[t] EXCEPT !.pc = "sleep", !.outcome = "nothing"])
    /\ running' = 0
    /\ UNCHANGED << env, guild_settings, user_preferences, processing, cache, semaphore,
                    translation_stats, reaction_messages, delivered, replies,
                    outbound, window >>

\* message.reply returns, or raises into auto_translate's `except Exception`
Oracle_ReplyReturn(t, ok) ==
    /\ env.variant = "oracle"
    /\ UNCHANGED << reactions, dms >>
    /\ running = 0
    /\ tasks[t].pc = "o_await_reply"
    /\ IF ok
       THEN /\ replies' = Append(replies,
                            [id |-> NextReplyId, to |-> tasks[t].msg,
                             sections |-> EmbedSections(tasks[t].translations),
                             source |-> tasks[t].source])
            /\ window' = [window EXCEPT ![tasks[t].msg] = @ + 1]
            /\ Set(t, [tasks[t] EXCEPT !.pc = "sleep", !.reply = NextReplyId,
                                       !.outcome = "replied"])
       ELSE /\ Set(t, [tasks[t] EXCEPT !.pc = "sleep", !.raised = TRUE,
                                       !.outcome = "error"])
            /\ UNCHANGED << replies, window >>
    /\ UNCHANGED << env, guild_settings, user_preferences, processing, cache, semaphore,
                    translation_stats, reaction_messages, running, delivered, outbound >>

\* finally: asyncio.sleep(2) is over, the id leaves the de-duplication set
Oracle_Release(t) ==
    /\ env.variant = "oracle"
    /\ UNCHANGED << reactions, dms >>
    /\ running = 0
    /\ tasks[t].pc = "sleep"
    /\ processing' = processing \ {tasks[t].msg}
    /\ Set(t, IdleTask)
    /\ UNCHANGED << env, guild_settings, user_preferences, cache, semaphore,
                    translation_stats, reaction_messages, running, delivered, replies,
                    outbound, window >>

\* main_oracle.py cleanup_cache, hourly
Oracle_CleanupCache ==
    /\ env.variant = "oracle"
    /\ UNCHANGED << reactions, dms >>
    /\ running = 0
    /\ cache' = [p \in DOMAIN cache |->
                   IF p \in env.translators THEN OracleCleaned(cache[p]) ELSE cache[p]]
    /\ UNCHANGED << env, guild_settings, user_preferences, processing, semaphore,
                    translation_stats, reaction_messages, tasks, running, delivered,
                    replies, outbound, window >>

----------------------------------------------------------------------------
(* Initial states *)

Human(roles) == [bot |-> FALSE, read |-> TRUE, offline |-> FALSE, roles |-> roles]

\* The participants a resolver has to tell apart
Profiles ==
    { Human({"Spanish"}),
      Human({"Chinese", "English"}),
      Human({" ES ", "Moderator"}),
      Human({}),
      [Human({"Spanish"}) EXCEPT !.bot = TRUE],
      [Human({"Chinese"}) EXCEPT !.read = FALSE],
      [Human({"es", "Chinese"}) EXCEPT !.offline = TRUE] }

NoPreferences == [m \in Members |-> <<>>]

NoSettings == [present |-> FALSE, d |-> EmptyDict]

InitCommon ==
    /\ processing = {}
    /\ cache = [p \in {"deepl", "azure"} |-> <<>>]
    /\ semaphore = [p \in {"deepl", "azure"} |-> CONCURRENT_TRANSLATIONS]
    /\ translation_stats = [c \in Codes |-> 0]
    /\ reaction_messages = {}
    /\ tasks = [t \in Tasks |-> IdleTask]
    /\ running = 0
    /\ delivered = 0
    /\ replies = <<>>
    /\ outbound = [p \in {"deepl", "azure"} |-> 0]
    /\ window = [id \in MsgIds |-> 0]
    /\ reactions = [count |-> 0, last |-> None]
    /\ dms = <<>>

\* A guild where bob reads Spanish and Chinese and carol English
PlainGuild ==
    [alice |-> Human({"English"}), bob |-> Human({"Spanish", "Chinese"}),
     carol |-> Human({"English"})]

\* A guild whose only reader of another language reads Spanish
OneReaderGuild ==
    [alice |-> Human({"English"}), bob |-> Human({"Spanish"}),
     carol |-> Human({"English"})]

\* A guild in which everybody reads English and nothing else
QuietGuild ==
    [alice |-> Human({"English"}), bob |-> Human({"English"}),
     carol |-> Human({"English"})]

ProviderSets == {{"deepl", "azure"}, {"azure"}, {"deepl"}}

\* One message delivered up to MaxEvents times, either program, any provider set
Init ==
    /\ InitCommon
    /\ env \in [variant : {"main", "oracle"},
                translators : ProviderSets,
                members : {PlainGuild},
                answers : {{"", "uno"}},
                detects : {AzureDetectable},
                inbox : {{"m1"}},
                events : {MaxEvents}]
    /\ guild_settings = NoSettings
    /\ user_preferences = NoPreferences

\* One event in a guild whose two other participants are drawn from Profiles,
\* with and without stored preferences and the online-only setting
InitResolve ==
    /\ InitCommon
    /\ env \in [variant : {"main", "oracle"},
                translators : {{"deepl", "azure"}},
                members : {[alice |-> Human({"Spanish"}), bob |-> b, carol |-> c] :
                              b \in Profiles, c \in Profiles},
                answers : {{"uno"}},
                detects : {AzureDetectable},
                inbox : {{"m1"}},
                events : {1}]
    /\ guild_settings \in {NoSettings, [present |-> TRUE, d |-> [online_only |-> FALSE]]}
    /\ user_preferences \in {NoPreferences,
                             [NoPreferences EXCEPT !["bob"] = <<"en">>],
                             [NoPreferences EXCEPT !["bob"] = <<"zh", "es">>]}

\* main_oracle.py alone: two different messages, handled at the same time, on
\* Azure alone or on both providers
InitBurst ==
    /\ InitCommon
    /\ env \in [variant : {"oracle"},
                translators : {{"azure"}, {"deepl", "azure"}},
                members : {PlainGuild},
                answers : {{"uno"}},
                detects : {{"en"}},
                inbox : {{"m1", "m2"}},
                events : {MaxEvents}]
    /\ guild_settings = NoSettings
    /\ user_preferences = NoPreferences

\* One message delivered once, either program, any provider set, in a guild with
\* readers of other languages or without
InitDelay ==
    /\ InitCommon
    /\ env \in [variant : {"main", "oracle"},
                translators : ProviderSets,
                members : {PlainGuild, QuietGuild},
                answers : {{"", "uno"}},
                detects : {AzureDetectable},
                inbox : {{"m1"}},
                events : {1}]
    /\ guild_settings = NoSettings
    /\ user_preferences = NoPreferences

\* main_oracle.py alone on Azure: two different messages, each with two target
\* languages, handled at the same time
InitLimiter ==
    /\ InitCommon
    /\ env \in [variant : {"oracle"},
                translators : {{"azure"}},
                members : {PlainGuild},
                answers : {{"uno"}},
                detects : {{"en"}},
                inbox : {{"m1", "m2"}},
                events : {2}]
    /\ guild_settings = NoSettings
    /\ user_preferences = NoPreferences

\* main.py alone on Azure: one message with two target languages, in a guild
\* without stored settings, with flag reactions switched off, or switched on
InitFlags ==
    /\ InitCommon
    /\ env \in [variant : {"main"},
                translators : {{"azure"}},
                members : {PlainGuild},
                answers : {{"", "uno"}},
                detects : {{"en"}},
                inbox : {{"m1"}},
                events : {1}]
    /\ guild_settings \in {NoSettings,
                           [present |-> TRUE, d |-> [flag_reactions |-> FALSE]],
                           [present |-> TRUE, d |-> [flag_reactions |-> TRUE]]}
    /\ user_preferences = NoPreferences

\* A guild with a Spanish reader who is online and a Chinese reader who is not
MixedGuild ==
    [alice |-> Human({"English"}), bob |-> Human({"Spanish"}),
     carol |-> [Human({"Chinese"}) EXCEPT !.offline = TRUE]]

\* What an administrator can type after `config mode`
ModeInputs == TranslationMode \cup {"roles"}

\* main.py alone on Azure: one message in a guild with one reader offline, the
\* guild's settings absent or holding one key
InitMode ==
    /\ InitCommon
    /\ env \in [variant : {"main"},
                translators : {{"azure"}},
                members : {MixedGuild},
                answers : {{"uno"}},
                detects : {{"en"}},
                inbox : {{"m1"}},
                events : {1}]
    /\ guild_settings \in {NoSettings,
                           [present |-> TRUE, d |-> [online_only |-> FALSE]],
                           [present |-> TRUE, d |-> [flag_reactions |-> FALSE]],
                           [present |-> TRUE, d |-> [auto_translate |-> FALSE]],
                           [present |-> TRUE, d |-> [mode |-> "channel"]]}
    /\ user_preferences = NoPreferences

\* What a user can type after `setlang`: nothing, a registered code in capitals,
\* a registered code, an unregistered code with a registered one, a code twice
SetLangInputs == {<<>>, <<"ES">>, <<"es">>, <<"fr", "zh">>, <<"es", "es">>}

\* main.py alone on Azure: one message in a guild with one Spanish reader, nobody
\* with stored languages yet
InitPrefs ==
    /\ InitCommon
    /\ env \in [variant : {"main"},
                translators : {{"azure"}},
                members : {OneReaderGuild},
                answers : {{"uno"}},
                detects : {{"en"}},
                inbox : {{"m1"}},
                events : {1}]
    /\ guild_settings = NoSettings
    /\ user_preferences = NoPreferences

\* main_oracle.py alone with both providers: two different messages, each with
\* two target languages, all translated by the DeepL adapter
InitFull ==
    /\ InitCommon
    /\ env \in [variant : {"oracle"},
                translators : {{"deepl", "azure"}},
                members : {PlainGuild},
                answers : {{"uno"}},
                detects : {{"en"}},
                inbox : {{"m1", "m2"}},
                events : {2}]
    /\ guild_settings = NoSettings
    /\ user_preferences = NoPreferences

\* Two different messages on Azure, either program: two long texts that agree in
\* their first KeyPrefixLen characters, or the texts "es_en" and "detect"
InitKeys ==
    /\ InitCommon
    /\ env \in [variant : {"main", "oracle"},
                translators : {{"azure"}},
                members : {OneReaderGuild},
                answers : {{"uno"}},
                detects : {{"en"}},
                inbox : {{"m2", "m3"}, {"m6", "m7"}},
                events : {2}]
    /\ guild_settings = NoSettings
    /\ user_preferences = NoPreferences

\* main.py alone: one message, then reactions to its reply
InitReact ==
    /\ InitCommon
    /\ env \in [variant : {"main"},
                translators : {{"azure"}},
                members : {OneReaderGuild},
                answers : {{"uno", "dos"}},
                detects : {{"en"}},
                inbox : {{"m1"}},
                events : {1}]
    /\ guild_settings = NoSettings
    /\ user_preferences = NoPreferences

NextMain ==
    \/ \E t \in Tasks, m \in env.inbox : Main_OnMessage(t, m)
    \/ \E t \in Tasks, resp \in DetectResponses : Main_DetectReturn(t, resp)
    \/ \E t \in Tasks, ok \in BOOLEAN : Main_ChunkReturn(t, ok)
    \/ \E t \in Tasks : Main_Loop(t)
    \/ \E t \in Tasks : Main_TmTry(t)
    \/ \E t \in Tasks, resp \in Responses : Main_AdapterReturn(t, resp)
    \/ \E t \in Tasks : Main_TmReturn(t)
    \/ \E t \in Tasks : Main_AfterLoop(t)
    \/ \E t \in Tasks, ok \in BOOLEAN : Main_ReplyReturn(t, ok)
    \/ \E t \in Tasks : Main_React(t)
    \/ \E t \in Tasks, ok \in BOOLEAN : Main_ReactReturn(t, ok)
    \/ \E t \in Tasks : Main_Release(t)
    \/ Main_CleanupCache

NextOracle ==
    \/ \E t \in Tasks, m \in env.inbox : Oracle_OnMessage(t, m)
    \/ \E t \in Tasks, resp \in DetectResponses : Oracle_DetectReturn(t, resp)
    \/ \E t \in Tasks : Oracle_Resolve(t)
    \/ \E t \in Tasks : Oracle_Gather(t)
    \/ \E t \in Tasks : Oracle_TranslateStart(t)
    \/ \E t \in Tasks, resp \in Responses : Oracle_TranslateReturn(t, resp)
    \/ \E t \in Tasks : Oracle_Timeout(t)
    \/ \E t \in Tasks : Oracle_After(t)
    \/ \E t \in Tasks, ok \in BOOLEAN : Oracle_ReplyReturn(t, ok)
    \/ \E t \in Tasks : Oracle_Release(t)
    \/ Oracle_CleanupCache

Next == NextMain \/ NextOracle

Spec == Init /\ [][Next]_vars

SpecResolve == InitResolve /\ [][Next]_vars

SpecBurst == InitBurst /\ [][NextOracle]_vars

NextReact ==
    \/ NextMain
    \/ \E t \in Tasks, r \in ReactionEvents : Main_OnReaction(t, r)
    \/ \E t \in Tasks : Main_ReactionTmReturn(t)
    \/ \E t \in Tasks, res \in SendResults : Main_SendReturn(t, res)
    \/ \E t \in Tasks : Main_ReactionEnd(t)

SpecReact == InitReact /\ [][NextReact]_vars

SpecFlags == InitFlags /\ [][NextMain]_vars

SpecKeys == InitKeys /\ [][Next]_vars

\* the message handler of main.py and the administrator's `config mode`
NextMode ==
    \/ NextMain
    \/ \E mode \in ModeInputs : Main_ConfigMode(mode)

SpecMode == InitMode /\ [][NextMode]_vars

SpecFull == InitFull /\ [][NextOracle]_vars

\* the message handler of main.py and the users' `setlang`
NextPrefs ==
    \/ NextMain
    \/ \E member \in Members, languages \in SetLangInputs : Main_SetLang(member, languages)

SpecPrefs == InitPrefs /\ [][NextPrefs]_vars

\* asyncio.sleep(5) / asyncio.sleep(2) in the finally block of on_message: the
\* event loop's timer fires, so a handler in its delay is resumed
DelayFairness ==
    \A t \in Tasks : WF_vars(Main_Release(t)) /\ WF_vars(Oracle_Release(t))

SpecDelay == InitDelay /\ [][Next]_vars /\ DelayFairness

\* The timeouts the source sets on its provider calls: `timeout=10` on the
\* detection request of main_oracle.py (the request ends with a response or with
\* an exception that detect_language turns into None) and
\* asyncio.wait_for(task, timeout=10) around each translate call. main.py passes
\* no timeout to session.post and none to ClientSession(), so nothing here makes
\* its requests return.
TimeoutFairness ==
    \A t \in Tasks :
        /\ WF_vars(\E resp \in DetectResponses : Oracle_DetectReturn(t, resp))
        /\ WF_vars(Oracle_Timeout(t))

\* What makes a holder of a slot leave and a waiter enter: wait_for's timeout
\* cancels the holder, the event loop runs the handler that has just been resumed
\* until its next await, and asyncio.Semaphore wakes a waiter when a slot is free
LimiterFairness ==
    \A t \in Tasks :
        /\ WF_vars(Oracle_Timeout(t))
        /\ WF_vars(Oracle_Gather(t))
        /\ WF_vars(Oracle_After(t))
        /\ WF_vars(Oracle_Resolve(t))
        /\ WF_vars(Oracle_TranslateStart(t))

SpecLimiter == InitLimiter /\ [][NextOracle]_vars /\ LimiterFairness

SpecTimeouts == Init /\ [][Next]_vars /\ TimeoutFairness /\ DelayFairness

----------------------------------------------------------------------------
(* Properties *)

InPipeline(id) == {t \in Tasks : tasks[t].pc # "idle" /\ tasks[t].msg = id}

BothProviders == {"deepl", "azure"} \subseteq env.translators

\* C1: of the events that carry one message id and arrive while a handler for that
\* id is still working or in its delay, only one runs the pipeline: at most one
\* handler per id is past the guard, the id is in the de-duplication set exactly
\* while that handler lives, at most one reply is posted for the id in that time,
\* and exactly one once the handler has ended with a translation and the platform
\* took the reply.
C1_OneReplyPerDuplicate ==
    \A id \in MsgIds :
        /\ Cardinality(InPipeline(id)) <= 1
        /\ (id \in processing) <=> (InPipeline(id) # {})
        /\ InPipeline(id) # {} => window[id] <= 1
        /\ \A t \in InPipeline(id) :
              ( /\ tasks[t].pc = "sleep"
                /\ tasks[t].translations # {}
                /\ tasks[t].outcome # "error" ) => window[id] = 1

\* The handler of the first event has posted its reply and is in its delay, and the
\* second event for the same id has already been delivered.
C1_Witness ==
    \E t \in Tasks :
        /\ tasks[t].pc = "sleep"
        /\ tasks[t].at = 1
        /\ delivered = 2
        /\ tasks[t].outcome = "replied"
        /\ window[tasks[t].msg] = 1
        /\ Len(replies) = 1

\* C2: in main.py with both providers configured, once DeepL has given no result
\* for a language, translate_message is either about to call Azure or has called
\* it with the same text, target and source; it never returns before that.
C2_FallbackBeforeFailure ==
    \A t \in Tasks :
        ( /\ env.variant = "main"
          /\ BothProviders
          /\ tasks[t].tm["deepl"].status = "none" ) =>
            \/ /\ tasks[t].pc = "tm_try"
               /\ tasks[t].prov = "azure"
               /\ tasks[t].tm["azure"].status = ""
            \/ /\ tasks[t].tm["azure"].status \in {"sent", "some", "none", "raised"}
               /\ tasks[t].tm["azure"].args = tasks[t].tm["deepl"].args

\* DeepL gave no result and Azure, called after it, gave the translation.
C2_Witness ==
    \E t \in Tasks :
        /\ env.variant = "main"
        /\ BothProviders
        /\ tasks[t].pc = "tm_ret"
        /\ tasks[t].tm["deepl"].status = "none"
        /\ tasks[t].tm["azure"].status = "some"
        /\ Truthy(tasks[t].ret)

\* C3: no adapter translate call raises to its caller, whatever the text, the
\* target and the source (absent, registered, or a raw provider code).
C3_AdaptersNeverRaise ==
    \A t \in Tasks : \A p \in {"deepl", "azure"} : tasks[t].tm[p].status # "raised"

\* the translation loop of a handler has run to its end
LoopDone(t) ==
    \/ tasks[t].pc \in {"after_loop", "await_reply", "react", "await_react",
                        "o_after", "o_await_reply"}
    \/ tasks[t].pc = "sleep" /\ tasks[t].outcome \in {"replied", "nothing"}

\* C4: a language whose translation gave no result or timed out does not stop the
\* others: when the loop has ended every target language has been requested, the
\* translations kept are those of the languages that did not fail, a handler that
\* ends with a translation has requested every target language and has posted a
\* reply unless the platform refused it, and a posted reply has a section for
\* exactly the languages that succeeded.
C4_FailureSparesSiblings ==
    \A t \in Tasks :
        /\ LoopDone(t) =>
              /\ tasks[t].asked = tasks[t].target_langs
              /\ TranslatedLangs(t) = tasks[t].asked \ tasks[t].failed
        /\ (tasks[t].pc = "sleep" /\ tasks[t].translations # {}) =>
              /\ tasks[t].asked = tasks[t].target_langs
              /\ TranslatedLangs(t) = tasks[t].asked \ tasks[t].failed
              /\ tasks[t].outcome \in {"replied", "error"}
        /\ tasks[t].outcome = "replied" =>
              \E i \in 1..Len(replies) :
                  /\ replies[i].id = tasks[t].reply
                  /\ replies[i].to = tasks[t].msg
                  /\ replies[i].sections = tasks[t].asked \ tasks[t].failed
                  /\ replies[i].sections # {}

\* A reply was posted for a message of which one language failed and another did not.
C4_Witness ==
    \E t \in Tasks :
        /\ tasks[t].outcome = "replied"
        /\ tasks[t].failed # {}
        /\ tasks[t].asked \ tasks[t].failed # {}

AuthorOf(t) == Messages[MsgOf(tasks[t].msg)].author

\* detection is over for the handler and gave no language
NoDetection(t) ==
    /\ tasks[t].pc \notin {"idle", "await_detect", "o_await_detect"}
    /\ ~Truthy(tasks[t].source)

\* the resolver has run for the handler and found nobody to serve
NoTargets(t) == tasks[t].resolved /\ tasks[t].target_langs = {}

\* C5: a handler whose detection gave no language, or whose resolver found no
\* participant needing a translation, is in its final delay without an exception,
\* has made no translate call, requested no language and posted no reply.
C5_NothingToDoIsQuiet ==
    \A t \in Tasks :
        (NoDetection(t) \/ NoTargets(t)) =>
            /\ tasks[t].pc = "sleep"
            /\ ~tasks[t].raised
            /\ tasks[t].outcome \in {"nodetect", "notargets"}
            /\ tasks[t].calls = 0
            /\ tasks[t].asked = {}
            /\ tasks[t].reply = 0
            /\ window[tasks[t].msg] = 0

\* A language was detected and the resolver, having run, found nobody to serve.
C5_Witness ==
    \E t \in Tasks :
        /\ Truthy(tasks[t].source)
        /\ NoTargets(t)
        /\ tasks[t].pc = "sleep"

\* the step by which main.py's resolver returns to on_message
ResolverReturns(t) ==
    /\ env.variant = "main"
    /\ tasks[t].pc = "await_chunk"
    /\ tasks'[t].resolved

\* C6: when main.py's get_target_users returns, no participant whose language set
\* (stored preferences united with language roles) contains the source language is
\* in the mapping, and every language of the target set comes from a participant
\* of the mapping, whose set does not contain the source.
C6_SourceReaderNotServed ==
    [][ \A t \in Tasks :
          ResolverReturns(t) =>
            /\ \A member \in Members :
                  tasks[t].source \in get_user_languages(member) =>
                      \A tu \in tasks'[t].target_users : tu[1] # member
            /\ \A tu \in tasks'[t].target_users :
                  /\ tu[2] = get_user_languages(tu[1])
                  /\ tasks[t].source \notin tu[2]
            /\ tasks'[t].target_langs = UNION {tu[2] : tu \in tasks'[t].target_users}
      ]_vars

\* The resolver served somebody while another participant, eligible and reading
\* the source language among others, was left out.
C6_Witness ==
    \E t \in Tasks :
        /\ env.variant = "main"
        /\ tasks[t].resolved
        /\ tasks[t].target_users # {}
        /\ \E member \in Members :
              /\ ~Skipped(member, AuthorOf(t))
              /\ tasks[t].source \in get_user_languages(member)
              /\ Cardinality(get_user_languages(member)) >= 2
              /\ \A tu \in tasks[t].target_users : tu[1] # member

\* the participants the resolver is not to select
Excluded(member, author) ==
    \/ member = author
    \/ env.members[member].bot
    \/ ~env.members[member].read
    \/ Get(guild_settings.d, "online_only", TRUE) /\ env.members[member].offline

\* the languages the claim of C7 expects to be requested
ExpectedLangs(t) ==
    UNION {get_user_languages(member) : member \in
             {mb \in Members :
                 /\ ~Excluded(mb, AuthorOf(t))
                 /\ get_user_languages(mb) # {}
                 /\ tasks[t].source \notin get_user_languages(mb)}}

\* the handler of main.py has left its translation loop, by its end or otherwise
PastLoop(t) ==
    /\ env.variant = "main"
    /\ tasks[t].resolved
    /\ tasks[t].pc \in {"after_loop", "await_reply", "react", "await_react", "sleep"}

\* C7: the languages main.py's on_message has requested once it is past its loop
\* are the union of the full language sets of the eligible participants whose
\* non-empty set excludes the source.
C7_RequestsUnionOfSets ==
    \A t \in Tasks : PastLoop(t) => tasks[t].asked = ExpectedLangs(t)

\* C8: no language of a handler's target set comes only from excluded participants
\* (the author, automated accounts, participants without read permission and,
\* with the online-only setting on, offline participants), and no excluded
\* participant is in main.py's mapping.
C8_ExcludedNeverSelected ==
    \A t \in Tasks :
        tasks[t].resolved =>
            /\ \A tu \in tasks[t].target_users : ~Excluded(tu[1], AuthorOf(t))
            /\ \A lang \in tasks[t].target_langs :
                  \E member \in Members :
                      /\ ~Excluded(member, AuthorOf(t))
                      /\ lang \in get_user_languages(member)

\* the adapter call a handler is about to make, and its cache key
CallKey(t) ==
    IF env.variant = "main"
    THEN MainCacheKey(tasks[t].prov, Content(tasks[t].msg), tasks[t].lang, tasks[t].source)
    ELSE OracleCacheKey(Content(tasks[t].msg), tasks[t].lang, tasks[t].source)

CallsAdapter(t) ==
    /\ tasks[t].prov \in env.translators
    /\ \/ env.variant = "main" /\ running = t /\ tasks[t].pc = "tm_try"
       \/ env.variant = "oracle" /\ tasks[t].pc = "o_tr_start"
                                 /\ tasks'[t].pc # "o_tr_start"

\* C9: a translate call that finds its key in the adapter's cache returns the
\* value stored under the key, sends nothing to a provider and leaves the caches
\* as they are.
C9_HitReturnsStored ==
    [][ \A t \in Tasks :
          (CallsAdapter(t) /\ CacheHas(cache[tasks[t].prov], CallKey(t))) =>
            /\ tasks'[t].tm[tasks[t].prov].hit
            /\ tasks'[t].tm[tasks[t].prov].ret = CacheGet(cache[tasks[t].prov], CallKey(t))
            /\ tasks'[t].tm[tasks[t].prov].args =
                  << Content(tasks[t].msg), tasks[t].lang, tasks[t].source >>
            /\ outbound' = outbound
            /\ cache' = cache
      ]_vars

\* A call was answered from the cache with a translation, no request having been
\* sent for it.
C9_Witness ==
    \E t \in Tasks : \E p \in env.translators :
        /\ tasks[t].tm[p].hit
        /\ tasks[t].tm[p].status = "some"
        /\ tasks[t].tm[p].ret = "uno"

\* the capacity of an adapter's cache
Capacity == IF env.variant = "main" THEN MainCacheLimit ELSE CACHE_SIZE

\* C10: no adapter's cache ever holds more entries than the capacity.
C10_CacheWithinCapacity ==
    \A p \in {"deepl", "azure"} : Len(cache[p]) <= Capacity

\* the provider calls of adapter p that main_oracle.py has sent and not yet seen
\* return: translation requests, and for Azure detection requests too
InFlight(p) ==
    Cardinality({t \in Tasks : tasks[t].pc = "o_await_tr" /\ tasks[t].prov = p})
    + (IF p = "azure"
       THEN Cardinality({t \in Tasks : tasks[t].pc = "o_await_detect"})
       ELSE 0)

\* C11: in main_oracle.py no adapter ever has more than CONCURRENT_TRANSLATIONS
\* provider calls in flight, translation and detection calls counted together.
C11_InFlightBounded ==
    \A p \in {"deepl", "azure"} : InFlight(p) <= CONCURRENT_TRANSLATIONS

\* everything the bot holds or has sent, the record of delivered reactions aside
BotState ==
    << env, guild_settings, user_preferences, processing, cache, semaphore,
       translation_stats, reaction_messages, tasks, running, delivered, replies,
       outbound, window, dms >>

\* a reaction the claim of C12 wants ignored: by the bot itself, to a message with
\* no retained reply context, or with a glyph that is no registered language's flag
Ignorable(r) ==
    \/ r.user = "bot"
    \/ ~\E ctx \in reaction_messages : ctx.reply = r.message
    \/ ~\E code \in Codes : LANGUAGES[code].flag = r.emoji

\* a reaction-added event is delivered in this step
ReactionArrives == reactions'.count = reactions.count + 1

\* C12: the delivery of a reaction by the bot itself, to a message without retained
\* context, or with a glyph that is no flag changes nothing: no handler task, no
\* provider call, no private message, no bot state.
C12_IgnoredReactionDoesNothing ==
    [][ (ReactionArrives /\ Ignorable(reactions'.last)) => UNCHANGED BotState ]_vars

\* A non-flag glyph was put by a user on the retained reply, after another
\* reaction had been delivered.
C12_Witness ==
    /\ reactions.count = 2
    /\ reactions.last = [user |-> "bob", message |-> 101, emoji |-> "thumbs-up"]
    /\ \E ctx \in reaction_messages : ctx.reply = 101

\* the reaction handlers at work
Reacting == {t \in Tasks : tasks[t].kind = "react" /\ tasks[t].pc # "idle"}

\* the text kept for a language in the context retained for a reply, None without
Kept(reply, lang) ==
    IF \E ctx \in reaction_messages :
          ctx.reply = reply /\ \E tr \in ctx.translations : tr[1] = lang
    THEN LET ctx == CHOOSE c \in reaction_messages : c.reply = reply
         IN (CHOOSE tr \in ctx.translations : tr[1] = lang)[2]
    ELSE None

\* C13: a reaction handler whose language has a text in the retained context has
\* called no adapter and holds exactly that text for delivery; a handler that has
\* called an adapter found no text for its language in the context; and a private
\* message sent for a language the context holds carries the retained text.
C13_RetainedTextReused ==
    /\ \A t \in Reacting :
          /\ Truthy(Kept(tasks[t].reply, tasks[t].lang)) =>
                /\ tasks[t].calls = 0
                /\ tasks[t].tm = NoTm
                /\ tasks[t].ret = Kept(tasks[t].reply, tasks[t].lang)
                /\ tasks[t].pc \in {"r_await_send", "r_done"}
          /\ tasks[t].calls > 0 => Kept(tasks[t].reply, tasks[t].lang) = None
    /\ \A i \in 1..Len(dms) :
          Truthy(Kept(dms[i].reply, dms[i].lang)) =>
              dms[i].text = Kept(dms[i].reply, dms[i].lang)

\* The retained Spanish text went out as a private message although the provider
\* had since been asked for another language and answered with a different text.
C13_Witness ==
    \E i \in 1..Len(dms) : \E j \in 1..Len(dms) :
        /\ dms[i].lang = "es"
        /\ Truthy(Kept(dms[i].reply, "es"))
        /\ dms[i].text = Kept(dms[i].reply, "es")
        /\ dms[j].lang = "en"
        /\ dms[j].text # dms[i].text

\* the reaction handlers whose language has no text in the retained context
OnDemand == {t \in Reacting : Kept(tasks[t].reply, tasks[t].lang) = None}

\* the context retained for a reply
ContextOf(reply) == CHOOSE ctx \in reaction_messages : ctx.reply = reply

\* what translate_message is to be called with for handler t
OnDemandArgs(t) ==
    << Content(ContextOf(tasks[t].reply).original), tasks[t].lang,
       ContextOf(tasks[t].reply).source_lang >>

\* the delivery of a flag reaction of a user for a language the context lacks
\* starts a handler that goes to translate_message at once
OnDemandStarts ==
    ( /\ ReactionArrives
      /\ ~Ignorable(reactions'.last)
      /\ Kept(reactions'.last.message, FlagLang(reactions'.last.emoji)) = None ) =>
        \E t \in Tasks :
            /\ tasks[t].pc = "idle"
            /\ tasks'[t].kind = "react"
            /\ tasks'[t].pc = "tm_try"
            /\ tasks'[t].reactor = reactions'.last.user
            /\ tasks'[t].reply = reactions'.last.message
            /\ tasks'[t].lang = FlagLang(reactions'.last.emoji)
            /\ running' = t

\* what holds of every on-demand handler
OnDemandServed ==
    \A t \in OnDemand :
        /\ tasks[t].reactor # "bot"
        /\ tasks[t].lang \in Codes
        /\ \A p \in {"deepl", "azure"} :
              tasks[t].tm[p].status \notin {"", "absent"} =>
                  tasks[t].tm[p].args = OnDemandArgs(t)
        /\ tasks[t].pc \in {"r_await_send", "r_done"} => tasks[t].calls > 0
        /\ tasks[t].pc = "r_await_send" =>
              /\ Truthy(tasks[t].ret)
              /\ \E p \in {"deepl", "azure"} :
                    tasks[t].tm[p].status = "some" /\ tasks[t].tm[p].ret = tasks[t].ret
        /\ tasks[t].pc = "r_done" =>
              (Truthy(tasks[t].ret) <=> tasks[t].outcome \in {"sent", "dropped", "error"})
        /\ tasks[t].outcome = "sent" =>
              \E i \in 1..Len(dms) :
                  dms[i] = [to |-> tasks[t].reactor, text |-> tasks[t].ret,
                            reply |-> tasks[t].reply, lang |-> tasks[t].lang]

\* C14: a user's flag reaction for a registered language the retained context
\* lacks starts a handler that calls translate_message with the original text,
\* that language and the recorded source; when a provider gives a text the
\* handler sends it to the reactor as a private message, and what the platform
\* accepts is that text, addressed to the reactor.
C14_OnDemandTranslationSent ==
    /\ []OnDemandServed
    /\ [][OnDemandStarts]_vars

\* A text computed on demand for English, which the context lacks, reached bob.
C14_Witness ==
    \E t \in OnDemand :
        /\ tasks[t].outcome = "sent"
        /\ tasks[t].lang = "en"
        /\ tasks[t].reactor = "bob"
        /\ tasks[t].tm["azure"].status = "some"
        /\ \E i \in 1..Len(dms) :
              dms[i] = [to |-> "bob", text |-> tasks[t].tm["azure"].ret,
                        reply |-> tasks[t].reply, lang |-> "en"]

\* the platform refuses the private message handler t is waiting to send
SendRefused(t) ==
    /\ tasks[t].pc = "r_await_send"
    /\ tasks'[t].pc = "r_done"
    /\ tasks'[t].outcome = "dropped"

\* the step leaves alone everything but the position of handler t
OnlyHandlerMoves(t) ==
    /\ UNCHANGED << env, guild_settings, user_preferences, processing, cache, semaphore,
                    translation_stats, reaction_messages, running, delivered, replies,
                    outbound, window, reactions, dms >>
    /\ \A u \in Tasks \ {t} : tasks'[u] = tasks[u]
    /\ tasks'[t] = [tasks[t] EXCEPT !.pc = "r_done", !.outcome = "dropped"]

\* a handler whose send was refused has raised nothing and is over
RefusedIsQuiet ==
    \A t \in Reacting :
        tasks[t].outcome = "dropped" => tasks[t].pc = "r_done" /\ ~tasks[t].raised

\* C15: when the platform refuses the private message, the reaction handler ends
\* without raising, no private message and no channel message is sent to anyone,
\* and no state of the bot changes.
C15_RefusedSendDropped ==
    /\ []RefusedIsQuiet
    /\ [][\A t \in Tasks : SendRefused(t) => OnlyHandlerMoves(t)]_vars

\* bob's private message was refused and nothing has been sent privately.
C15_Witness ==
    \E t \in Reacting :
        /\ tasks[t].outcome = "dropped"
        /\ tasks[t].reactor = "bob"
        /\ Truthy(tasks[t].ret)
        /\ dms = <<>>

\* translate_message has reached adapter p's translate in handler t
Called(t, p) == tasks[t].tm[p].status \in {"sent", "some", "none", "raised"}

\* C16: in main.py's translate_message Azure's translate is reached for a language
\* only when DeepL's translate was called for it and gave no result or when DeepL
\* is not configured, and never once DeepL has returned a translation.
C16_FallbackOnlyAfterPrimary ==
    \A t \in Tasks :
        env.variant = "main" =>
            /\ Called(t, "azure") =>
                  \/ /\ "deepl" \in env.translators
                     /\ tasks[t].tm["deepl"].status = "none"
                     /\ tasks[t].tm["deepl"].args = tasks[t].tm["azure"].args
                  \/ /\ "deepl" \notin env.translators
                     /\ tasks[t].tm["deepl"].status = "absent"
            /\ tasks[t].tm["deepl"].status \in {"sent", "some", "raised"} =>
                  tasks[t].tm["azure"].status = ""
            /\ (tasks[t].pc = "tm_try" /\ tasks[t].prov = "azure") =>
                  tasks[t].tm["deepl"].status \in {"none", "absent"}

\* With both providers configured DeepL returned a translation and
\* translate_message returned it; Azure was not called.
C16_Witness ==
    \E t \in Tasks :
        /\ env.variant = "main"
        /\ BothProviders
        /\ tasks[t].tm["deepl"].status = "some"
        /\ tasks[t].tm["azure"].status = ""
        /\ tasks[t].pc = "tm_ret"
        /\ tasks[t].ret = tasks[t].tm["deepl"].ret

\* C17: in main_oracle.py with both providers configured, a language is treated
\* as failed after DeepL gave no result only if Azure has been tried for it.
C17_OracleFallbackBeforeFailure ==
    \A t \in Tasks :
        ( /\ env.variant = "oracle"
          /\ BothProviders
          /\ tasks[t].tm["deepl"].status = "none"
          /\ tasks[t].lang \in tasks[t].failed ) =>
            tasks[t].tm["azure"].status \in {"sent", "some", "none", "timeout"}

\* the registered languages a participant's roles name
RoleLangs(member) ==
    {code \in Codes :
        \E role \in env.members[member].roles :
            Lower(role) = Lower(LANGUAGES[code].name) \/ Lower(role) = code}

\* C18: in main_oracle.py every target language of auto_translate is there on
\* account of a participant (not a bot, not the author) none of whose language
\* roles is the detected source language.
C18_SourceRoleHolderAddsNothing ==
    \A t \in Tasks :
        (env.variant = "oracle" /\ tasks[t].resolved) =>
            \A code \in tasks[t].target_langs :
                \E member \in ChannelMembers :
                    /\ ~env.members[member].bot
                    /\ member # AuthorOf(t)
                    /\ code \in RoleLangs(member)
                    /\ tasks[t].source \notin RoleLangs(member)

\* the ways the work of on_message ends before its delay
Paths == {"replied", "nodetect", "notargets", "nothing", "error"}

\* the handler of id has ended its work on path o and is in its delay
Ended(id, o) ==
    \E t \in Tasks :
        tasks[t].pc = "sleep" /\ tasks[t].msg = id /\ tasks[t].outcome = o

\* an id is in the set only while a handler holds it, and a handler in its delay
\* came there on one of the paths
HeldByHandler ==
    /\ \A id \in processing : \E t \in Tasks : tasks[t].pc # "idle" /\ tasks[t].msg = id
    /\ \A t \in Tasks : tasks[t].pc = "sleep" =>
           tasks[t].outcome \in Paths /\ tasks[t].msg \in processing

\* C19: once the work of the handler of a message has ended (reply posted, nothing
\* detected, no targets, nothing translated, or an exception), the message id
\* eventually leaves the de-duplication set.
C19_IdEventuallyReleased ==
    /\ []HeldByHandler
    /\ \A id \in MsgIds : \A o \in Paths :
           (Ended(id, o) /\ id \in processing) ~> (id \notin processing)

\* The message was handled, its reply posted, and after the delay the set is
\* empty again.
C19_Witness ==
    /\ processing = {}
    /\ delivered = 1
    /\ Len(replies) = 1
    /\ window[1] = 1
    /\ \A t \in Tasks : tasks[t].pc = "idle"

\* the positions at which a handler waits for a provider's response
AwaitingMain == {"await_detect", "await_tm"}
AwaitingOracle == {"o_await_detect", "o_await_tr"}

Holders(p) == {t \in Tasks : tasks[t].pc = "o_await_tr" /\ tasks[t].prov = p}

\* every slot is either free or held by a call in progress
SlotsAccounted ==
    \A p \in {"deepl", "azure"} :
        semaphore[p] + Cardinality(Holders(p)) = CONCURRENT_TRANSLATIONS

\* handler t is about to enter translate and finds no free slot
Blocked(t) == tasks[t].pc = "o_tr_start" /\ semaphore[tasks[t].prov] = 0

ContextsKept == reaction_messages \subseteq reaction_messages'

\* a reply has one context at most
OneContextPerReply ==
    \A c1 \in reaction_messages : \A c2 \in reaction_messages :
        c1.reply = c2.reply => c1 = c2

\* C22: a retained reply context keeps its original message, its source language
\* and its translations in every step, is never removed and never replaced by
\* another context for the same reply; a text translated on demand for a
\* reaction is not added to it.
C22_ContextNeverMutated ==
    /\ []OneContextPerReply
    /\ [][ContextsKept]_vars

\* An English text translated on demand has been sent while the context of the
\* reply still holds the Spanish translation alone.
C22_Witness ==
    \E ctx \in reaction_messages : \E i \in 1..Len(dms) :
        /\ dms[i].reply = ctx.reply
        /\ dms[i].lang = "en"
        /\ {tr[1] : tr \in ctx.translations} = {"es"}

\* the step is one of a reaction handler: its start, or a move of its task
ReactionStep ==
    \E t \in Tasks :
        /\ tasks'[t] # tasks[t]
        /\ tasks[t].kind = "react" \/ tasks'[t].kind = "react"

\* the step is one of a message handler
MessageStep ==
    \E t \in Tasks :
        /\ tasks'[t] # tasks[t]
        /\ tasks[t].kind = "msg" /\ tasks'[t].kind = "msg"

\* C23: the state on_message writes (retained contexts, adapter caches, statistics
\* counters, de-duplication set) is written by no step of a reaction handler.
C23_PathsShareNoWrites ==
    [][ReactionStep => UNCHANGED << reaction_messages, cache, translation_stats,
                                    processing >>]_vars

\* `guild_settings.get("flag_reactions", True)` as handler t reads it
FlagsEnabled(t) == Get(LocalSettings(t), "flag_reactions", TRUE)

\* the languages that have a section in the reply with this id
SectionsOf(id) == UNION {replies[i].sections : i \in {j \in 1..Len(replies) : replies[j].id = id}}

\* what holds of a message handler whose reply has been posted
FlagsFollowSetting ==
    \A t \in Tasks :
        (tasks[t].kind = "msg" /\ tasks[t].outcome = "replied") =>
            IF FlagsEnabled(t)
            THEN /\ Retained(tasks[t].reply) # {}
                 /\ tasks[t].pending \subseteq SectionsOf(tasks[t].reply)
                 /\ tasks[t].pc = "sleep" => tasks[t].pending = {}
            ELSE /\ Retained(tasks[t].reply) = {}
                 /\ tasks[t].pending = {}
                 /\ tasks[t].pc = "sleep"

\* the steps of the loop that attaches the flags: it starts with the languages of
\* the reply, each attempt takes one language that was not tried yet, an attempt
\* that returns or fails leaves the languages still to try and the context as
\* they are and raises nothing, and the loop ends when no language is left
FlagLoopStep ==
    \A t \in Tasks :
        /\ (tasks[t].pc = "await_reply" /\ tasks'[t].pc = "react") =>
              /\ Len(replies') = Len(replies) + 1
              /\ replies'[Len(replies')].id = tasks'[t].reply
              /\ tasks'[t].pending = replies'[Len(replies')].sections
        /\ (tasks[t].pc = "react" /\ tasks'[t].pc = "await_react") =>
              /\ tasks'[t].lang \in tasks[t].pending
              /\ tasks'[t].pending = tasks[t].pending \ {tasks'[t].lang}
        /\ (tasks[t].pc = "await_react" /\ tasks'[t].pc # "await_react") =>
              /\ tasks'[t].pc = "react"
              /\ tasks'[t].pending = tasks[t].pending
              /\ ~tasks'[t].raised
              /\ reaction_messages' = reaction_messages
        /\ (tasks[t].pc = "react" /\ tasks'[t].pc = "sleep") =>
              tasks[t].pending = {}

\* C24: with flag reactions enabled the handler retains the context and tries to
\* attach the flag of each language of the posted reply exactly once; a failed
\* attempt is not repeated, raises nothing, leaves the other languages to be
\* tried and the context in place. With flag reactions disabled nothing is
\* attached and no context is retained.
C24_OneFlagPerLanguage ==
    /\ []FlagsFollowSetting
    /\ [][FlagLoopStep]_vars

\* The reply holds Spanish and Chinese; the flag of each has been tried, the loop
\* is over and the context is retained.
C24_Witness ==
    \E t \in Tasks :
        /\ tasks[t].pc = "sleep"
        /\ tasks[t].outcome = "replied"
        /\ SectionsOf(tasks[t].reply) = {"es", "zh"}
        /\ tasks[t].pending = {}
        /\ FlagsEnabled(t)
        /\ Retained(tasks[t].reply) # {}

\* no handler is at work
Quiescent == \A t \in Tasks : tasks[t].pc = "idle"

\* the number of sections for language L in the replies posted so far
SectionsPosted(L) == Cardinality({i \in 1..Len(replies) : L \in replies[i].sections})

\* C25: whenever all handled events are over, the statistics counter of each
\* language equals the number of sections for that language in the replies
\* that were posted.
C25_CounterMatchesReplies ==
    Quiescent => \A L \in Codes : translation_stats[L] = SectionsPosted(L)

\* a set of (language, text) pairs holds one text per language
OneTextPerLanguage(translations) ==
    \A tr1 \in translations : \A tr2 \in translations : tr1[1] = tr2[1] => tr1 = tr2

\* the translations a handler has collected, and those a context retains, hold
\* one text per language
ResultsShared ==
    /\ \A t \in Tasks : OneTextPerLanguage(tasks[t].translations)
    /\ \A ctx \in reaction_messages : OneTextPerLanguage(ctx.translations)

\* the steps of a message handler t that concern its requests: it turns to a
\* language it has not turned to before; it calls an adapter that has not been
\* called for the language at hand; what an adapter was asked for the language
\* at hand is not forgotten while that language is at hand; and the text it
\* keeps for a language is the one a provider returned for it
OncePerLanguage(t) ==
    /\ (tasks'[t].asked # tasks[t].asked /\ tasks'[t].pc # "idle") =>
          /\ tasks'[t].lang \notin tasks[t].asked
          /\ tasks'[t].asked = tasks[t].asked \cup {tasks'[t].lang}
          /\ tasks'[t].tm = NoTm
    /\ (tasks'[t].calls # tasks[t].calls /\ tasks'[t].pc # "idle") =>
          /\ tasks'[t].calls = tasks[t].calls + 1
          /\ tasks'[t].asked = tasks[t].asked
          /\ tasks[t].lang \in tasks[t].asked
          /\ \E p \in {"deepl", "azure"} :
                /\ tasks[t].tm[p].status = ""
                /\ tasks'[t].tm[p].status \in {"sent", "some", "none", "raised"}
                /\ tasks'[t].tm[p].args[2] = tasks[t].lang
    /\ (tasks'[t].asked = tasks[t].asked /\ tasks'[t].pc # "idle") =>
          \A p \in {"deepl", "azure"} :
              tasks[t].tm[p].status # "" => tasks'[t].tm[p].status # ""
    /\ (tasks'[t].translations # tasks[t].translations /\ tasks'[t].pc # "idle") =>
          /\ tasks[t].lang \notin TranslatedLangs(t)
          /\ \E p \in {"deepl", "azure"} :
                /\ tasks'[t].tm[p].status = "some"
                /\ tasks'[t].translations =
                       tasks[t].translations \cup {<< tasks[t].lang, tasks'[t].tm[p].ret >>}

\* C26: while a message is handled, each target language is turned to once and
\* each provider is called at most once for it, however many participants need
\* the language; the one text obtained is the one kept for the reply and for
\* the retained context.
C26_OneRequestPerLanguage ==
    /\ []ResultsShared
    /\ [][\A t \in Tasks : tasks[t].kind = "msg" => OncePerLanguage(t)]_vars

\* Two participants need Spanish; the handler of main.py asked for Spanish alone,
\* called an adapter once and posted its reply.
C26_Witness ==
    \E t \in Tasks :
        /\ env.variant = "main"
        /\ tasks[t].pc = "sleep"
        /\ tasks[t].outcome = "replied"
        /\ Cardinality({tu \in tasks[t].target_users : "es" \in tu[2]}) = 2
        /\ tasks[t].asked = {"es"}
        /\ tasks[t].calls = 1

\* handler t waits for a provider's answer to a translation request
AwaitsTranslation(t) == tasks[t].kind = "msg" /\ tasks[t].pc \in {"await_tm", "o_await_tr"}

\* the languages handler t has to request
ToRequest(t) == tasks[t].target_langs \ {tasks[t].source}

\* C27: the requests for the target languages of a message are issued together:
\* while a handler waits for the answer to one of them, the request for every
\* other target language of the message has been issued as well.
C27_RequestsIssuedTogether ==
    \A t \in Tasks : AwaitsTranslation(t) => ToRequest(t) \subseteq tasks[t].asked

\* the ids of the replies message.reply has returned
PostedReplies == {replies[i].id : i \in 1..Len(replies)}

\* every reply posted with flag reactions enabled has its context
PostedHasContext ==
    \A t \in Tasks :
        (tasks[t].kind = "msg" /\ tasks[t].outcome = "replied" /\ FlagsEnabled(t)) =>
            /\ tasks[t].reply \in PostedReplies
            /\ \E ctx \in reaction_messages : ctx.reply = tasks[t].reply

\* a user's flag reaction to a posted reply is delivered, and a handler takes it up
FlagOnPostedReplyHandled ==
    ( /\ ReactionArrives
      /\ reactions'.last.message \in PostedReplies
      /\ reactions'.last.user # "bot"
      /\ \E code \in Codes : LANGUAGES[code].flag = reactions'.last.emoji ) =>
        \E t \in Tasks :
            /\ tasks[t].pc = "idle"
            /\ tasks'[t].kind = "react"
            /\ tasks'[t].reply = reactions'.last.message

\* C28: the context of a reply exists from the moment message.reply has returned:
\* with flag reactions enabled a posted reply always has its context, and a
\* user's flag reaction to a posted reply is never dropped for want of it, also
\* while the message handler is still attaching its own flags.
C28_ContextStoredWithReply ==
    /\ []PostedHasContext
    /\ [][FlagOnPostedReplyHandled]_vars

\* A reaction handler is at work for the reply while the message handler still
\* waits for its own flag to be attached.
C28_Witness ==
    \E t \in Tasks : \E u \in Tasks :
        /\ tasks[t].kind = "msg"
        /\ tasks[t].pc = "await_react"
        /\ tasks[u].kind = "react"
        /\ tasks[u].pc # "idle"
        /\ tasks[u].reply = tasks[t].reply

\* C29: a translate call that is answered from the cache is answered with what an
\* earlier call for the same full text, the same target and the same source
\* stored: never with the result of a call for another text, target or source,
\* and never with the result of a language detection.
C29_HitIsOwnTranslation ==
    [][ \A t \in Tasks :
          (CallsAdapter(t) /\ CacheHas(cache[tasks[t].prov], CallKey(t))) =>
              CacheOf(cache[tasks[t].prov], CallKey(t)) =
                  << Content(tasks[t].msg), tasks[t].lang, tasks[t].source >>
      ]_vars

\* C30: while Azure is not configured, no reply has been posted, no request has
\* been sent to any provider and no handler holds a translation, whether or not
\* DeepL is configured; each handler ends where nothing was detected.
C30_NothingWithoutAzure ==
    "azure" \notin env.translators =>
        /\ replies = <<>>
        /\ \A p \in {"deepl", "azure"} : outbound[p] = 0
        /\ \A t \in Tasks :
              /\ tasks[t].translations = {}
              /\ tasks[t].calls = 0
              /\ tasks[t].pc \in {"idle", "sleep"}
              /\ tasks[t].pc = "sleep" => tasks[t].outcome = "nodetect"

\* DeepL alone is configured, the guild has readers of other languages, and the
\* handler of the message has ended without a detected language
C30_Witness ==
    /\ env.translators = {"deepl"}
    /\ \E u \in DOMAIN env.members :
          ~env.members[u].bot /\ u # Author /\ env.members[u].roles # {}
    /\ Ended(1, "nodetect")

\* the two dicts hold the same keys and values, "mode" aside
SameButMode(d1, d2) ==
    \A k \in (DOMAIN d1 \cup DOMAIN d2) \ {"mode"} :
        k \in DOMAIN d1 /\ k \in DOMAIN d2 /\ d1[k] = d2[k]

\* what a message handler that has run the resolver holds is what the resolver
\* gives under the mode stored now, and each posted reply holds no language
\* outside the target languages the resolver gives now
ModeFreeOutputs ==
    /\ \A t \in Tasks :
          (tasks[t].kind = "msg" /\ tasks[t].resolved) =>
              /\ tasks[t].target_users = get_target_users(AuthorOf(t), tasks[t].source)
              /\ tasks[t].target_langs = CollectTargetLangs(tasks[t].target_users)
              /\ tasks[t].asked \subseteq tasks[t].target_langs
    /\ \A i \in 1..Len(replies) :
          replies[i].sections \subseteq
              CollectTargetLangs(get_target_users(Messages[MsgOf(replies[i].to)].author,
                                                  replies[i].source))

\* a step that stores a mode changes nothing else, and everything the message
\* handler reads from the settings has the same value before and after it
ModeStep ==
    guild_settings' # guild_settings =>
        /\ SameButMode(guild_settings.d, guild_settings'.d)
        /\ UNCHANGED << env, user_preferences, processing, cache, semaphore,
                        translation_stats, reaction_messages, tasks, running,
                        delivered, replies, outbound, window, reactions, dms >>
        /\ \A m \in DOMAIN Messages : MainIgnores(m)' = MainIgnores(m)
        /\ \A author \in Members, source_lang \in Codes \cup {"ca"} :
              get_target_users(author, source_lang)' =
                  get_target_users(author, source_lang)
        /\ \A t \in Tasks : FlagsEnabled(t)' = FlagsEnabled(t)

\* C31: in main.py the mode stored for the guild has no effect on automatic
\* translation: whatever mode is stored, and whenever it is changed, the message
\* handler ignores the same messages, the resolver selects the same participants
\* and languages, the same languages are requested and the reply holds the same
\* sections.
C31_ModeHasNoEffect ==
    /\ []ModeFreeOutputs
    /\ [][ModeStep]_vars

\* The handler started while the guild had no settings, the mode was then set to
\* "dm", and the reply to the message was posted with its Spanish section.
C31_Witness ==
    /\ guild_settings.present
    /\ Get(guild_settings.d, "mode", ROLE_BASED) = "dm"
    /\ \E t \in Tasks :
          /\ tasks[t].gs = "own"
          /\ tasks[t].outcome = "replied"
          /\ SectionsOf(tasks[t].reply) = {"es"}

\* the entries of a cache
CacheEntries(c) == {c[i] : i \in 1..Len(c)}

\* the call of adapter p by handler t ends in this step
CallEnds(t, p) ==
    /\ tasks'[t].tm[p] # tasks[t].tm[p]
    /\ tasks'[t].tm[p].status \in {"some", "none", "raised", "timeout"}

\* ... without a result and without a 200 response: another status, a transport
\* error, a timeout, a target or source that is not registered
EndsWithoutResult(t, p) ==
    /\ CallEnds(t, p)
    /\ ~tasks'[t].tm[p].hit
    /\ tasks'[t].tm[p].ret = None

\* ... with the text of a 200 response, which this step stores or, in
\* main_oracle.py, leaves out when it is empty or the cache is full
EndsWithResponse(t, p) ==
    /\ CallEnds(t, p)
    /\ ~tasks'[t].tm[p].hit
    /\ tasks'[t].tm[p].ret \in env.answers
    /\ \/ cache'[p] = cache[p]
       \/ /\ CacheEntries(cache'[p]) \ CacheEntries(cache[p]) =
                {[k |-> CallKey(t), v |-> tasks'[t].tm[p].ret, of |-> tasks'[t].tm[p].args]}
          /\ CacheKeys(cache'[p]) = CacheKeys(cache[p]) \cup {CallKey(t)}

\* main_oracle.py's detect_language stores the code of its 200 response
DetectionStored(t) ==
    /\ env.variant = "oracle"
    /\ tasks[t].pc = "o_await_detect"
    /\ CacheEntries(cache'["azure"]) \ CacheEntries(cache["azure"]) =
          {[k |-> DetectCacheKey(Content(tasks[t].msg)), v |-> tasks'[t].source,
            of |-> << Content(tasks[t].msg) >>]}

\* a step that changes an adapter's cache either evicts or stores what a 200
\* response carried, and a call that ends without a result changes no cache
CacheStep ==
    /\ \A t \in Tasks, p \in {"deepl", "azure"} :
          EndsWithoutResult(t, p) => cache' = cache
    /\ \A p \in {"deepl", "azure"} :
          cache'[p] # cache[p] =>
              \/ /\ CacheEntries(cache'[p]) \subseteq CacheEntries(cache[p])
                 /\ UNCHANGED tasks
              \/ \E t \in Tasks : EndsWithResponse(t, p)
              \/ p = "azure" /\ \E t \in Tasks : DetectionStored(t)

\* every value a cache holds is a text or a language code a 200 response carried
OnlyResponsesCached ==
    \A p \in {"deepl", "azure"} : \A e \in CacheEntries(cache[p]) :
        IF Len(e.of) = 3
        THEN e.v \in env.answers
        ELSE e.v \in {MapDetected(code) : code \in env.detects}

\* C32: a translate call that ends without a result (a status other than 200, a
\* transport error, a timeout, an unregistered language) leaves every cache as it
\* was, a cache changes only by eviction or by storing what a 200 response
\* carried, and so a cache never holds anything else.
C32_FailedCallLeavesCache ==
    /\ []OnlyResponsesCached
    /\ [][CacheStep]_vars

\* DeepL answered with another status than 200 and left its cache empty, Azure
\* answered the same call with a translation, which is in its cache.
C32_Witness ==
    \E t \in Tasks :
        /\ tasks[t].tm["deepl"].status = "none"
        /\ tasks[t].tm["deepl"].ret = None
        /\ ~tasks[t].tm["deepl"].hit
        /\ cache["deepl"] = <<>>
        /\ tasks[t].tm["azure"].status = "some"
        /\ CacheHas(cache["azure"], MainCacheKey("azure", Content(tasks[t].msg),
                                                 tasks[t].lang, tasks[t].source))

\* the elements of a list
Elements(list) == {list[i] : i \in 1..Len(list)}

\* every stored list holds registered codes only, and so does every language set
\* the resolver derives and everything a handler took from it
PreferencesRegistered ==
    /\ \A member \in Members :
          /\ Elements(user_preferences[member]) \subseteq Codes
          /\ get_user_languages(member) \subseteq Codes
    /\ \A t \in Tasks :
          /\ \A tu \in tasks[t].target_users : tu[2] \subseteq Codes
          /\ tasks[t].target_langs \subseteq Codes
          /\ tasks[t].asked \subseteq Codes

\* a step that changes a user's stored list stores a non-empty list: the
\* registered codes of a command that names at least one, in the order typed
SetLangStep ==
    \A member \in Members :
        user_preferences'[member] # user_preferences[member] =>
            /\ user_preferences'[member] # <<>>
            /\ \E languages \in SetLangInputs :
                  /\ Elements(languages) \cap Codes # {}
                  /\ Elements(user_preferences'[member]) = Elements(languages) \cap Codes
                  /\ Len(user_preferences'[member]) <= Len(languages)
            /\ \A other \in Members \ {member} :
                  user_preferences'[other] = user_preferences[other]

\* C33: whatever setlang commands have run, every stored list of languages is
\* non-empty and holds registered codes only, every language the resolver derives
\* from stored lists and roles is registered, and a command without a registered
\* code changes no stored list.
C33_PreferencesStayRegistered ==
    /\ []PreferencesRegistered
    /\ [][SetLangStep]_vars

\* bob, whose only language role is Spanish, typed `setlang fr zh`; the message
\* was then answered with a Spanish and a Chinese section.
C33_Witness ==
    /\ user_preferences["bob"] = <<"zh">>
    /\ \E i \in 1..Len(replies) : replies[i].sections = {"es", "zh"}

\* the DeepL cache is within CACHE_SIZE, so cleanup_cache would keep all of it
DeepLWithinSize ==
    env.variant = "oracle" =>
        /\ Len(cache["deepl"]) <= CACHE_SIZE
        /\ OracleCleaned(cache["deepl"]) = cache["deepl"]

\* the DeepL cache is never made smaller, and once it holds CACHE_SIZE entries
\* no step changes it; a call that then ends with the provider's translation
\* hands it to the handler and leaves its key out of the cache
FullCacheStep ==
    env.variant = "oracle" =>
        /\ CacheEntries(cache["deepl"]) \subseteq CacheEntries(cache'["deepl"])
        /\ Len(cache["deepl"]) = CACHE_SIZE =>
              /\ cache'["deepl"] = cache["deepl"]
              /\ \A t \in Tasks :
                    (CallEnds(t, "deepl") /\ ~tasks'[t].tm["deepl"].hit
                        /\ Truthy(tasks'[t].tm["deepl"].ret)) =>
                        /\ ~CacheHas(cache'["deepl"], CallKey(t))
                        /\ << tasks[t].lang, tasks'[t].tm["deepl"].ret >>
                               \in tasks'[t].translations

\* C34: in main_oracle.py the DeepL adapter's cache never holds more than
\* CACHE_SIZE entries and cleanup_cache never removes one; once it holds
\* CACHE_SIZE entries it never changes again, and a later translation of a new
\* key is returned to the handler without being stored.
C34_FullCacheFrozen ==
    /\ []DeepLWithinSize
    /\ [][FullCacheStep]_vars

\* The DeepL cache is full and a handler holds a translation that DeepL's
\* response gave for a key the cache does not have.
C34_Witness ==
    /\ env.variant = "oracle"
    /\ Len(cache["deepl"]) = CACHE_SIZE
    /\ \E t \in Tasks :
          /\ tasks[t].tm["deepl"].status = "some"
          /\ ~tasks[t].tm["deepl"].hit
          /\ tasks[t].pc = "o_gather"
          /\ << tasks[t].lang, tasks[t].tm["deepl"].ret >> \in tasks[t].translations
          /\ ~CacheHas(cache["deepl"],
                       OracleCacheKey(Content(tasks[t].msg), tasks[t].lang, tasks[t].source))

====
